---- MODULE Spec2Model ----
(***************************************************************************)
(* A model of es_resolve (src/src/es_resolver.rs, utils.rs, types.rs).     *)
(*                                                                         *)
(* Strings are sequences of one-character strings, a path is the string    *)
(* a PathBuf holds, and the filesystem is a function from absolute         *)
(* component lists to directory or file entries.  The resolver is a pure   *)
(* function of (target, from, env, options) and the filesystem; the state  *)
(* machine builds a filesystem entry by entry and then calls resolve.      *)
(***************************************************************************)
EXTENDS Integers, Sequences, FiniteSets, TLC

VARIABLES fs, cwd, profile, project, pc, call, result

vars == <<fs, cwd, profile, project, pc, call, result>>

(***************************************************************************)
(* Option<T>: None is the empty tuple, Some(x) the one-element tuple.      *)
(***************************************************************************)
None == <<>>
Some(x) == <<x>>
is_some(o) == Len(o) = 1
unwrap(o) == o[1]

(***************************************************************************)
(* str: the operations of Rust's str that the resolver uses.  Indices are  *)
(* 0-based as in the source; a search that finds nothing gives -1.         *)
(***************************************************************************)
starts_with(s, p) == Len(s) >= Len(p) /\ SubSeq(s, 1, Len(p)) = p

str_ends_with(s, p) == Len(s) >= Len(p) /\ SubSeq(s, Len(s) - Len(p) + 1, Len(s)) = p

contains(s, c) == \E i \in 1..Len(s) : s[i] = c

find(s, c) ==
    IF contains(s, c)
    THEN (CHOOSE i \in 1..Len(s) : s[i] = c /\ \A j \in 1..(i - 1) : s[j] # c) - 1
    ELSE -1

rfind(s, c) ==
    IF contains(s, c)
    THEN (CHOOSE i \in 1..Len(s) : s[i] = c /\ \A j \in (i + 1)..Len(s) : s[j] # c) - 1
    ELSE -1

\* &s[i..j]
slice(s, i, j) == SubSeq(s, i + 1, j)

\* str::replacen(c, by, 1)
replacen1(s, c, by) ==
    LET at(i) == IF i < 0 THEN s ELSE slice(s, 0, i) \o by \o slice(s, i + 1, Len(s))
    IN  at(find(s, c))

RECURSIVE split(_, _)
\* str::split(c): the pieces between the separators, empty pieces included
split(s, c) ==
    LET at(i) == IF i < 0 THEN <<s>>
                 ELSE <<slice(s, 0, i)>> \o split(slice(s, i + 1, Len(s)), c)
    IN  at(find(s, c))

RECURSIVE join_with(_, _)
join_with(segs, sep) ==
    IF Len(segs) = 0 THEN <<>>
    ELSE IF Len(segs) = 1 THEN segs[1]
    ELSE segs[1] \o sep \o join_with(Tail(segs), sep)

(***************************************************************************)
(* std::path on Unix.                                                      *)
(***************************************************************************)
SLASH == <<"/">>
DOT == <<".">>
DOTDOT == <<".", ".">>

is_absolute(p) == Len(p) > 0 /\ p[1] = "/"

\* Path::components without the root: empty pieces and "." are dropped,
\* except a leading "." of a relative path
components(p) ==
    LET raw == split(p, "/")
        keep(seg) == seg # <<>> /\ seg # DOT
    IN  IF ~is_absolute(p) /\ raw[1] = DOT
        THEN <<DOT>> \o SelectSeq(Tail(raw), keep)
        ELSE SelectSeq(raw, keep)

from_components(abs, comps) ==
    (IF abs THEN SLASH ELSE <<>>) \o join_with(comps, SLASH)

\* Path::file_name: the last component when it is a normal one
file_name(p) ==
    LET c == components(p)
    IN  IF Len(c) = 0 THEN None
        ELSE IF c[Len(c)] = DOTDOT \/ c[Len(c)] = DOT THEN None
        ELSE Some(c[Len(c)])

\* Path::parent: None for the root and for the empty path
parent(p) ==
    LET c == components(p)
    IN  IF Len(c) = 0 THEN None
        ELSE Some(from_components(is_absolute(p), SubSeq(c, 1, Len(c) - 1)))

\* PathBuf::push / Path::join
join(base, p) ==
    IF is_absolute(p) THEN p
    ELSE IF Len(base) = 0 THEN p
    ELSE IF base[Len(base)] = "/" THEN base \o p
    ELSE base \o SLASH \o p

\* Path::with_file_name: pop the file name when there is one, then push
with_file_name(p, name) ==
    join(IF is_some(file_name(p)) THEN unwrap(parent(p)) ELSE p, name)

\* Path::file_stem: the file name up to its last '.', a leading '.' excepted
file_stem(name) ==
    LET before(dot) == IF dot <= 0 THEN name ELSE slice(name, 0, dot)
    IN  before(rfind(name, "."))

\* Path::with_extension: the extension of the file name is REPLACED (the
\* path is cut after the file stem before '.' + ext is added); a path
\* without a file name is left as it is
with_extension(p, ext) ==
    LET set(name) ==
            IF ~is_some(name) THEN p
            ELSE join(unwrap(parent(p)),
                      file_stem(unwrap(name)) \o (IF Len(ext) = 0 THEN <<>> ELSE DOT \o ext))
    IN  set(file_name(p))

\* Path::ends_with: a suffix of whole components
ends_with(p, child) ==
    LET c == components(p)
        d == components(child)
    IN  /\ Len(d) <= Len(c)
        /\ SubSeq(c, Len(c) - Len(d) + 1, Len(c)) = d
        /\ (is_absolute(child) => (is_absolute(p) /\ Len(c) = Len(d)))

RECURSIVE clean_components(_, _, _)
clean_components(abs, todo, done) ==
    IF Len(todo) = 0 THEN done
    ELSE LET seg == todo[1]
             rest == Tail(todo)
         IN  IF seg = DOT THEN clean_components(abs, rest, done)
             ELSE IF seg = DOTDOT
             THEN IF Len(done) > 0 /\ done[Len(done)] # DOTDOT
                  THEN clean_components(abs, rest, SubSeq(done, 1, Len(done) - 1))
                  ELSE IF abs THEN clean_components(abs, rest, done)
                  ELSE clean_components(abs, rest, Append(done, seg))
             ELSE clean_components(abs, rest, Append(done, seg))

\* path_clean::PathClean::clean: lexical, never touches the filesystem
clean(p) ==
    LET of(c) == IF ~is_absolute(p) /\ Len(c) = 0 THEN DOT
                 ELSE from_components(is_absolute(p), c)
    IN  of(clean_components(is_absolute(p), components(p), <<>>))

(***************************************************************************)
(* The filesystem oracle.  fs maps the component list of an absolute path  *)
(* to its entry; the root (the empty list) is a directory.  A file holds   *)
(* a document: text that is no JSON, or a JSON object of which only the    *)
(* fields the resolver deserializes are kept (serde ignores the others).   *)
(***************************************************************************)
Doc(json, main, module, react_native, exports, extends, base_url, paths) ==
    [json |-> json, main |-> main, module |-> module, react_native |-> react_native,
     exports |-> exports, extends |-> extends, base_url |-> base_url, paths |-> paths]

TextDoc == Doc(FALSE, None, None, None, None, None, None, None)
PackageDoc(main, module, exports) == Doc(TRUE, main, module, None, exports, None, None, None)
TSConfigDoc(extends, base_url, paths) == Doc(TRUE, None, None, None, None, extends, base_url, paths)

DirEntry == [kind |-> "dir", doc |-> TextDoc]
FileEntry(doc) == [kind |-> "file", doc |-> doc]

kind_of(at) == IF Len(at) = 0 THEN "dir" ELSE fs[at].kind

RECURSIVE walk(_, _)
\* the kernel's path walk: every step, also "", "." and "..", needs the
\* place reached so far to be a directory
walk(at, todo) ==
    IF Len(todo) = 0 THEN Some(at)
    ELSE IF kind_of(at) # "dir" THEN None
    ELSE LET seg == todo[1]
         IN  IF seg = <<>> \/ seg = DOT THEN walk(at, Tail(todo))
             ELSE IF seg = DOTDOT
             THEN walk(IF Len(at) = 0 THEN at ELSE SubSeq(at, 1, Len(at) - 1), Tail(todo))
             ELSE IF Append(at, seg) \in DOMAIN fs THEN walk(Append(at, seg), Tail(todo))
             ELSE None

lookup(p) ==
    IF Len(p) = 0 THEN None
    ELSE walk(IF is_absolute(p) THEN <<>> ELSE cwd, split(p, "/"))

\* Path::exists
exists(p) == is_some(lookup(p))

\* Path::is_file
is_file(p) ==
    LET of(at) == is_some(at) /\ kind_of(unwrap(at)) = "file"
    IN  of(lookup(p))

\* fs::read_to_string: None stands for the io::Error
read_to_string(p) ==
    LET of(at) == IF is_some(at) /\ kind_of(unwrap(at)) = "file"
                  THEN Some(fs[unwrap(at)].doc) ELSE None
    IN  of(lookup(p))

\* Path::canonicalize: None stands for the io::Error
canonicalize(p) ==
    LET of(at) == IF is_some(at) THEN Some(from_components(TRUE, unwrap(at))) ELSE None
    IN  of(lookup(p))

(***************************************************************************)
(* Results.  k is "Ok" (EsResolverResult<String>), "Some" / "None"         *)
(* (Option<PathBuf>, or Ok(Some) / Ok(None)), "Err" with the error kind    *)
(* in e, "Panic" for an abort and "Diverge" for a recursion without end.   *)
(***************************************************************************)
Res(k, v, e) == [k |-> k, v |-> v, e |-> e]
Ok(s) == Res("Ok", s, "")
SomeP(p) == Res("Some", p, "")
NoneP == Res("None", <<>>, "")
Err(e) == Res("Err", <<>>, e)
Panic == Res("Panic", <<>>, "")
Diverge == Res("Diverge", <<>>, "")
aborts(r) == r.k = "Panic" \/ r.k = "Diverge"

(***************************************************************************)
(* types.rs                                                                *)
(***************************************************************************)
\* Extensions::to_str
to_str(e) ==
    CASE e = "Mjs" -> <<"m", "j", "s">>
      [] e = "Mts" -> <<"m", "t", "s">>
      [] e = "Cjs" -> <<"c", "j", "s">>
      [] e = "Cts" -> <<"c", "t", "s">>
      [] e = "Json" -> <<"j", "s", "o", "n">>
      [] e = "Js" -> <<"j", "s">>
      [] e = "Jsx" -> <<"j", "s", "x">>
      [] e = "Ts" -> <<"t", "s">>
      [] e = "Tsx" -> <<"t", "s", "x">>
      [] e = "Node" -> <<"n", "o", "d", "e">>
      [] e = "Css" -> <<"c", "s", "s">>

\* PackageJSON::get_main_field
get_main_field(package_json, field) ==
    CASE field = "Main" -> package_json.main
      [] field = "Module" -> package_json.module
      [] field = "ReactNative" -> package_json.react_native

\* the Exports sum
ExString(s) == [t |-> "String", s |-> s, o |-> <<>>, a |-> <<>>]
\* o: the IndexMap as the sequence of its entries in insertion order
ExObject(o) == [t |-> "Object", s |-> <<>>, o |-> o, a |-> <<>>]
ExArray(a) == [t |-> "Array", s |-> <<>>, o |-> <<>>, a |-> a]
Entry(key, value) == [key |-> key, value |-> value]

\* IndexMap::get
map_get(map, key) ==
    IF \E i \in 1..Len(map) : map[i].key = key
    THEN Some(map[CHOOSE i \in 1..Len(map) : map[i].key = key].value)
    ELSE None

S_node == <<"n", "o", "d", "e">>
S_require == <<"r", "e", "q", "u", "i", "r", "e">>
S_default == <<"d", "e", "f", "a", "u", "l", "t">>
S_browser == <<"b", "r", "o", "w", "s", "e", "r">>
S_module == <<"m", "o", "d", "u", "l", "e">>
S_import == <<"i", "m", "p", "o", "r", "t">>

\* data::DEFAULT_EXTENSIONS, as the documentation of
\* EsResolveOptions::extensions gives it
DEFAULT_EXTENSIONS == <<"Tsx", "Ts", "Jsx", "Js", "Css", "Json">>

\* EsResolveOptions::default_for
default_for(env) ==
    IF env = "Node"
    THEN [main_fields |-> <<"Main", "Module">>,
          conditions |-> <<S_node, S_require, S_default>>,
          extensions |-> DEFAULT_EXTENSIONS]
    ELSE [main_fields |-> <<"Module", "Main">>,
          conditions |-> <<S_browser, S_module, S_import, S_default>>,
          extensions |-> DEFAULT_EXTENSIONS]

\* serde_json::from_str::<PackageJSON>
parse_package_json(doc) ==
    IF doc.json
    THEN Res("Ok", [main |-> doc.main, module |-> doc.module,
                    react_native |-> doc.react_native, exports |-> doc.exports], "")
    ELSE Err("InvalidPackageJSON")

\* serde_json::from_reader::<TSConfig> after StripComments
parse_tsconfig_json(doc) ==
    IF doc.json
    THEN Res("Ok", [extends |-> doc.extends, base_url |-> doc.base_url, paths |-> doc.paths], "")
    ELSE Err("InvalidTSConfig")

(***************************************************************************)
(* data.rs (not part of the sources at hand; taken from the specification) *)
(***************************************************************************)
PACKAGE_JSON == <<"p", "a", "c", "k", "a", "g", "e", ".", "j", "s", "o", "n">>
NODE_MODULES == <<"n", "o", "d", "e", "_", "m", "o", "d", "u", "l", "e", "s">>
TSCONFIG_NAMES ==
    << <<"t", "s", "c", "o", "n", "f", "i", "g", ".", "j", "s", "o", "n">>,
       <<"j", "s", "c", "o", "n", "f", "i", "g", ".", "j", "s", "o", "n">> >>

\* a part of the sorted core-module table
NODE_CORE_MODULES == << <<"f", "s">>, <<"o", "s">>, <<"p", "a", "t", "h">> >>

REWRITTEN_EXTENSIONS ==
    << <<"Js", <<"Ts", "Tsx">> >>, <<"Jsx", <<"Tsx">> >>,
       <<"Cjs", <<"Cts">> >>, <<"Mjs", <<"Mts">> >> >>

(***************************************************************************)
(* utils.rs                                                                *)
(***************************************************************************)
match_exports_pattern(pattern, target) ==
    LET i == find(pattern, "*")
    IN  IF i >= 0
        THEN /\ starts_with(target, slice(pattern, 0, i))
             /\ str_ends_with(target, slice(pattern, i + 1, Len(pattern)))
        ELSE pattern = target

\* &target[i..target.len() - (pattern.len() - i) + 1] in usize arithmetic.
\* diff < 0 is a subtraction below zero: it panics where overflow checks are
\* compiled in (the debug profile) and wraps where they are not (release);
\* the wrapped end, 2^64 + diff + 1 modulo 2^64, is 0 for diff = -1 and is
\* beyond every length for diff < -1.  A slice whose bounds are out of
\* order or out of range panics.
extract_exports_pattern(pattern, target) ==
    LET i == find(pattern, "*")
        diff == Len(target) - (Len(pattern) - i)
        end == IF diff >= 0 THEN diff + 1 ELSE 0
    IN  IF i < 0 THEN Res("Ok", target, "")
        ELSE IF diff < 0 /\ profile = "debug" THEN Panic
        ELSE IF diff < -1 THEN Panic
        ELSE IF i > end \/ end > Len(target) THEN Panic
        ELSE Res("Ok", slice(target, i, end), "")

\* the ties of equal base length decided for the key without '*'
pattern_key_compare_non_pattern_first(a, b) ==
    LET a_pattern_index == find(a, "*")
        b_pattern_index == find(b, "*")
        base_len_a == IF a_pattern_index = -1 THEN Len(a) ELSE a_pattern_index + 1
        base_len_b == IF b_pattern_index = -1 THEN Len(b) ELSE b_pattern_index + 1
    IN  IF base_len_a > base_len_b THEN -1
        ELSE IF base_len_b > base_len_a THEN 1
        ELSE IF a_pattern_index = -1 /\ b_pattern_index # -1 THEN -1
        ELSE IF b_pattern_index = -1 /\ a_pattern_index # -1 THEN 1
        ELSE IF Len(a) > Len(b) THEN -1
        ELSE IF Len(b) > Len(a) THEN 1
        ELSE 0

pattern_key_compare(a, b) ==
    LET a_pattern_index == find(a, "*")
        b_pattern_index == find(b, "*")
        base_len_a == IF a_pattern_index = -1 THEN Len(a) ELSE a_pattern_index + 1
        base_len_b == IF b_pattern_index = -1 THEN Len(b) ELSE b_pattern_index + 1
    IN  IF base_len_a > base_len_b THEN -1
        ELSE IF base_len_b > base_len_a THEN 1
        ELSE IF a_pattern_index = -1 THEN 1
        ELSE IF b_pattern_index = -1 THEN -1
        ELSE IF Len(a) > Len(b) THEN -1
        ELSE IF Len(b) > Len(a) THEN 1
        ELSE 0

(***************************************************************************)
(* es_resolver.rs.  self is the EsResolver: target, from, env, options.    *)
(***************************************************************************)
EsResolver(target, from, env, options) ==
    [target |-> target, from |-> from, env |-> env, options |-> options]

\* the least element of a non-empty set of indices: where a loop stops
first_of(S) == CHOOSE i \in S : \A j \in S : i <= j

ok_with(path) == Ok(clean(path))

\* `let x = value;` and what follows it
bind(value, body(_)) == body(value)

\* `r?` and what follows it: every result that is not Ok is returned
try(r, body(_)) == IF r.k = "Ok" THEN body(r.v) ELSE r

\* `match f { c @ Some(_) => return c, _ => {} }` and what follows it
or_else(f, otherwise) == IF f.k = "Some" THEN f ELSE otherwise

try_extension(abs_to, extension) ==
    bind(with_extension(abs_to, to_str(extension)),
         LAMBDA with_ext : IF exists(with_ext) THEN SomeP(clean(with_ext)) ELSE NoneP)

\* the extensions of the rewritten-extension loop, in the order it tries them
RECURSIVE rewritten_candidates(_, _)
rewritten_candidates(abs_to, table) ==
    IF Len(table) = 0 THEN <<>>
    ELSE (IF ends_with(abs_to, to_str(table[1][1])) THEN table[1][2] ELSE <<>>)
         \o rewritten_candidates(abs_to, Tail(table))

RECURSIVE try_extensions(_, _)
\* a loop over extensions that returns at the first candidate that exists
try_extensions(abs_to, extensions) ==
    IF Len(extensions) = 0 THEN NoneP
    ELSE or_else(try_extension(abs_to, extensions[1]),
                 try_extensions(abs_to, Tail(extensions)))

\* the loop over the configured extensions, then the loop over the
\* rewritten ones
load_as_file(abs_to, extensions) ==
    IF is_file(abs_to) THEN SomeP(abs_to)
    ELSE try_extensions(abs_to,
             extensions \o rewritten_candidates(abs_to, REWRITTEN_EXTENSIONS))

load_index(self, abs_to) ==
    load_as_file(join(abs_to, <<"i", "n", "d", "e", "x">>), self.options.extensions)

load_package_json(p) ==
    bind(read_to_string(p),
         LAMBDA content : IF is_some(content) THEN parse_package_json(unwrap(content))
                          ELSE Err("IOError"))

RECURSIVE by_main_fields(_, _, _, _)
\* load_as_directory, the loop over options.main_fields
by_main_fields(self, abs_to, package_json, main_fields) ==
    IF Len(main_fields) = 0 THEN NoneP
    ELSE or_else(bind(get_main_field(package_json, main_fields[1]),
                      LAMBDA maybe_path :
                          IF is_some(maybe_path)
                          THEN load_as_file(join(abs_to, unwrap(maybe_path)),
                                            self.options.extensions)
                          ELSE NoneP),
                 by_main_fields(self, abs_to, package_json, Tail(main_fields)))

load_as_directory(self, abs_to) ==
    or_else(bind(load_package_json(join(abs_to, PACKAGE_JSON)),
                 LAMBDA package_json_result :
                     IF package_json_result.k = "Ok"
                     THEN by_main_fields(self, abs_to, package_json_result.v,
                                         self.options.main_fields)
                     ELSE NoneP),
            load_index(self, abs_to))

\* Some(result) when resolve_impl returns from the block, None when it
\* goes on
load_as_relative(self, abs_to) ==
    bind(or_else(load_as_file(abs_to, self.options.extensions),
                 load_as_directory(self, abs_to)),
         LAMBDA f : IF f.k = "Some" THEN Some(ok_with(f.v)) ELSE None)

\* Ok(<<package_name, what follows it in name>>); name.as_bytes()[0] panics
\* on the empty name
parse_package_name(name) ==
    LET slash == find(name, "/")
        rest == slice(name, slash + 1, Len(name))
        sep_index == IF name[1] = "@" /\ slash >= 0
                     THEN (IF find(rest, "/") >= 0 THEN find(rest, "/") + slash + 1 ELSE -1)
                     ELSE slash
        package_name == IF sep_index >= 0 THEN slice(name, 0, sep_index) ELSE name
    IN  IF Len(name) = 0 THEN Panic
        ELSE IF name[1] = "@" /\ slash < 0 THEN Err("InvalidModuleSpecifier")
        ELSE IF starts_with(package_name, DOT) THEN Err("InvalidModuleSpecifier")
        ELSE IF contains(package_name, "%") \/ contains(package_name, "\\")
        THEN Err("InvalidModuleSpecifier")
        ELSE Res("Ok", <<package_name, slice(name, Len(package_name), Len(name))>>, "")

\* Ok(true) / Ok(false) as "Ok" with v, or Err(InvalidExports)
is_conditional_exports_main_sugar(exports) ==
    IF exports.t # "Object" THEN Res("Ok", TRUE, "")
    ELSE LET map == exports.o
             is_conditional_sugar == \A i \in 1..Len(map) : ~starts_with(map[i].key, DOT)
             any_conditional == \E i \in 1..Len(map) : ~starts_with(map[i].key, DOT)
         IN  IF is_conditional_sugar = any_conditional
             THEN Res("Ok", is_conditional_sugar, "")
             ELSE Err("InvalidExports")

\* every '*' of the target replaced (str::replace for str::replacen)
resolve_package_target_string_every_star(package_json_path, target, subpath, pattern) ==
    SomeP(with_file_name(package_json_path,
                         IF pattern THEN join_with(split(target, "*"), subpath) ELSE target))

resolve_package_target_string(package_json_path, target, subpath, pattern) ==
    SomeP(with_file_name(package_json_path,
                         IF pattern THEN replacen1(target, "*", subpath) ELSE target))

\* "default" matched only when it is listed
condition_matches_listed(self, key) ==
    \E i \in 1..Len(self.options.conditions) : self.options.conditions[i] = key

condition_matches(self, key) ==
    key = S_default \/ \E i \in 1..Len(self.options.conditions) : self.options.conditions[i] = key

RECURSIVE resolve_package_target(_, _, _, _, _)
resolve_package_target(self, package_json_path, target, subpath, pattern) ==
    IF target.t = "String"
    THEN resolve_package_target_string(package_json_path, target.s, subpath, pattern)
    ELSE IF target.t = "Object"
    THEN LET object == target.o
             at(i) == resolve_package_target(self, package_json_path, unwrap(object[i].value),
                                             subpath, pattern)
             \* the entries at which the loop returns: Err by `?`, or Some
             stops == {i \in 1..Len(object) :
                          /\ condition_matches(self, object[i].key)
                          /\ is_some(object[i].value)
                          /\ at(i).k # "None"}
         IN  IF stops = {} THEN Err("InvalidExports") ELSE at(first_of(stops))
    ELSE LET targets == target.a
             at(i) == resolve_package_target(self, package_json_path, targets[i], subpath, pattern)
             stops == {i \in 1..Len(targets) : at(i).k = "Some"}
         IN  IF stops = {} THEN Err("InvalidExports") ELSE at(first_of(stops))

\* the first matching key kept, whatever comes after it
best_pattern_key_first_match(map, package_subpath, best_match) ==
    LET matching == {i \in 1..Len(map) :
                        is_some(map[i].value) /\ match_exports_pattern(map[i].key, package_subpath)}
    IN  IF matching = {} THEN best_match ELSE map[first_of(matching)].key

RECURSIVE best_pattern_key(_, _, _)
\* the loop that keeps the best matching key with a non-null value
best_pattern_key(map, package_subpath, best_match) ==
    IF Len(map) = 0 THEN best_match
    ELSE best_pattern_key(Tail(map), package_subpath,
             IF /\ is_some(map[1].value)
                /\ match_exports_pattern(map[1].key, package_subpath)
                /\ pattern_key_compare(best_match, map[1].key) = 1
             THEN map[1].key ELSE best_match)

\* load_package_exports, the pattern part of the arm below
match_package_pattern(self, package_json_path, exports, package_subpath) ==
    IF exports.t # "Object" THEN SomeP(<<>>)
    ELSE bind(best_pattern_key(exports.o, package_subpath, <<>>),
              LAMBDA best_match :
                  IF Len(best_match) = 0 THEN SomeP(<<>>)
                  ELSE try(extract_exports_pattern(best_match, package_subpath),
                           LAMBDA subpath :
                               resolve_package_target(self, package_json_path,
                                   unwrap(unwrap(map_get(exports.o, best_match))),
                                   subpath, TRUE)))

\* load_package_exports, the arm for a manifest that has an `exports` field
match_package_exports(self, package_json_path, exports, package_subpath) ==
    LET sugar == is_conditional_exports_main_sugar(exports)
        maybe_target ==
            IF sugar.v /\ package_subpath = DOT THEN Some(exports)
            ELSE IF exports.t = "Object"
            THEN (IF is_some(map_get(exports.o, package_subpath))
                  THEN unwrap(map_get(exports.o, package_subpath)) ELSE None)
            ELSE Some(exports)
        plain == ~contains(package_subpath, "*") /\ ~str_ends_with(package_subpath, SLASH)
    IN  IF plain /\ sugar.k # "Ok" THEN sugar
        ELSE IF plain /\ is_some(maybe_target)
        THEN resolve_package_target(self, package_json_path, unwrap(maybe_target),
                                    package_subpath, FALSE)
        ELSE match_package_pattern(self, package_json_path, exports, package_subpath)

load_package_exports(self, node_modules_dir, name) ==
    try(parse_package_name(name), LAMBDA parsed :
    bind(join(join(node_modules_dir, parsed[1]), PACKAGE_JSON), LAMBDA package_json_path :
    bind(read_to_string(package_json_path), LAMBDA package_json_result :
        IF ~is_some(package_json_result) THEN Err("IOError")
        ELSE try(parse_package_json(unwrap(package_json_result)), LAMBDA package_json :
                 IF ~is_some(package_json.exports) THEN NoneP
                 ELSE match_package_exports(self, package_json_path,
                          unwrap(package_json.exports), DOT \o parsed[2])))))

\* the match on load_package_exports with every error returned
on_exports_returning_errors(c, otherwise) == IF c.k = "None" THEN otherwise ELSE c

\* load_node_modules, the match on load_package_exports: Ok(None) and the
\* two errors that are only logged go on, everything else is returned
on_exports(c, otherwise) ==
    IF c.k = "None" \/ (c.k = "Err" /\ c.e \in {"InvalidModuleSpecifier", "IOError"})
    THEN otherwise ELSE c

RECURSIVE load_node_modules(_, _, _)
\* one turn of the while loop for cur_dir, then the turn for its parent
load_node_modules(self, cur_dir, name) ==
    LET node_modules_dir == join(cur_dir, NODE_MODULES)
        module_base == join(node_modules_dir, name)
    IN  on_exports(load_package_exports(self, node_modules_dir, name),
            or_else(load_as_file(module_base, self.options.extensions),
                or_else(load_as_directory(self, module_base),
                    bind(parent(cur_dir), LAMBDA maybe_cur_dir :
                        IF is_some(maybe_cur_dir)
                        THEN load_node_modules(self, unwrap(maybe_cur_dir), name)
                        ELSE NoneP))))

RECURSIVE best_paths_key(_, _, _)
\* the loop of match_tsconfig_paths that keeps the best matching key
best_paths_key(paths, target, best_key) ==
    IF Len(paths) = 0 THEN best_key
    ELSE best_paths_key(Tail(paths), target,
             IF /\ match_exports_pattern(paths[1].key, target)
                /\ pattern_key_compare(best_key, paths[1].key) = 1
             THEN paths[1].key ELSE best_key)

\* Some(candidates) as "Ok" with the list in v
match_tsconfig_paths(self, base_url, paths) ==
    LET direct == map_get(paths, self.target)
    IN  IF is_some(direct)
        THEN Res("Ok", [i \in 1..Len(unwrap(direct)) |-> join(base_url, unwrap(direct)[i])], "")
        ELSE bind(best_paths_key(paths, self.target, <<>>), LAMBDA best_key :
             IF Len(best_key) = 0 THEN Res("Ok", <<join(base_url, self.target)>>, "")
             ELSE bind(unwrap(map_get(paths, best_key)), LAMBDA best_key_paths :
                  IF Len(best_key_paths) = 0 THEN Res("Ok", <<>>, "")
                  ELSE try(extract_exports_pattern(best_key, self.target), LAMBDA extracted :
                       Res("Ok", [i \in 1..Len(best_key_paths) |->
                           join(base_url, replacen1(best_key_paths[i], "*", extracted))], ""))))

RECURSIVE resolve_impl(_, _)

RECURSIVE parse_tsconfig(_, _, _)
\* the merge with the parent's values first
parse_tsconfig_parent_first(self, path, visited) ==
    bind(read_to_string(path), LAMBDA content :
    IF ~is_some(content) THEN NoneP
    ELSE IF unwrap(lookup(path)) \in visited THEN Diverge
    ELSE try(parse_tsconfig_json(unwrap(content)), LAMBDA parsed :
    bind([extends |-> parsed.extends,
          base_url |-> IF is_some(parsed.base_url)
                       THEN Some(with_file_name(path, unwrap(parsed.base_url)))
                       ELSE None,
          paths |-> parsed.paths], LAMBDA tsconfig :
    IF ~is_some(tsconfig.extends) THEN Res("Some", tsconfig, "")
    ELSE try(resolve_impl(EsResolver(unwrap(tsconfig.extends), path, "Node", self.options),
                          TRUE), LAMBDA extended_tsconfig_path :
    bind(parse_tsconfig(self, extended_tsconfig_path,
                        visited \cup {unwrap(lookup(path))}), LAMBDA maybe_extended_tsconfig :
    IF maybe_extended_tsconfig.k = "Some"
    THEN Res("Some",
             [extends |-> tsconfig.extends,
              base_url |-> IF is_some(maybe_extended_tsconfig.v.base_url)
                           THEN maybe_extended_tsconfig.v.base_url
                           ELSE tsconfig.base_url,
              paths |-> IF is_some(maybe_extended_tsconfig.v.paths)
                        THEN maybe_extended_tsconfig.v.paths
                        ELSE tsconfig.paths], "")
    ELSE IF maybe_extended_tsconfig.k = "None" THEN Err("InvalidTSConfigExtend")
    ELSE maybe_extended_tsconfig)))))

\* Ok(Some(tsconfig)) as "Some" with the TSConfig in v.  visited is not in
\* the source: it holds the files the chain of `extends` has gone through;
\* coming to one of them again repeats the same calls without end.
parse_tsconfig(self, path, visited) ==
    bind(read_to_string(path), LAMBDA content :
    IF ~is_some(content) THEN NoneP
    ELSE IF unwrap(lookup(path)) \in visited THEN Diverge
    ELSE try(parse_tsconfig_json(unwrap(content)), LAMBDA parsed :
    bind([extends |-> parsed.extends,
          base_url |-> IF is_some(parsed.base_url)
                       THEN Some(with_file_name(path, unwrap(parsed.base_url)))
                       ELSE None,
          paths |-> parsed.paths], LAMBDA tsconfig :
    IF ~is_some(tsconfig.extends) THEN Res("Some", tsconfig, "")
    ELSE try(resolve_impl(EsResolver(unwrap(tsconfig.extends), path, "Node", self.options),
                          TRUE), LAMBDA extended_tsconfig_path :
    bind(parse_tsconfig(self, extended_tsconfig_path,
                        visited \cup {unwrap(lookup(path))}), LAMBDA maybe_extended_tsconfig :
    IF maybe_extended_tsconfig.k = "Some"
    THEN Res("Some",
             [extends |-> tsconfig.extends,
              base_url |-> IF is_some(tsconfig.base_url) THEN tsconfig.base_url
                           ELSE maybe_extended_tsconfig.v.base_url,
              paths |-> IF is_some(tsconfig.paths) THEN tsconfig.paths
                        ELSE maybe_extended_tsconfig.v.paths], "")
    ELSE IF maybe_extended_tsconfig.k = "None" THEN Err("InvalidTSConfigExtend")
    ELSE maybe_extended_tsconfig)))))

\* `let m = r?; if let Some(_) = m { return Ok(m) }` and what follows it
unless_none(r, otherwise) == IF r.k = "None" THEN otherwise ELSE r

RECURSIVE tsconfig_in(_, _, _)
\* resolve_tsconfig, the loop over TSCONFIG_NAMES in one directory
tsconfig_in(self, cur_dir, names) ==
    IF Len(names) = 0 THEN NoneP
    ELSE unless_none(parse_tsconfig(self, join(cur_dir, names[1]), {}),
                     tsconfig_in(self, cur_dir, Tail(names)))

RECURSIVE resolve_tsconfig(_, _)
\* one turn of the while loop for cur_dir, then the turn for its parent
resolve_tsconfig(self, cur_dir) ==
    unless_none(tsconfig_in(self, cur_dir, TSCONFIG_NAMES),
                bind(parent(cur_dir), LAMBDA maybe_cur_dir :
                    IF is_some(maybe_cur_dir)
                    THEN resolve_tsconfig(self, unwrap(maybe_cur_dir))
                    ELSE NoneP))

\* the shortcut taken without a look at env
core_module_any_env(self) ==
    IF starts_with(self.target, <<"n", "o", "d", "e", ":">>) THEN Some(Ok(self.target))
    ELSE IF \E i \in 1..Len(NODE_CORE_MODULES) : NODE_CORE_MODULES[i] = self.target
    THEN Some(Ok(<<"n", "o", "d", "e", ":">> \o self.target))
    ELSE None

\* resolve_impl, the core-module shortcut: Some(result) when it is taken
core_module(self) ==
    IF self.env # "Node" THEN None
    ELSE IF starts_with(self.target, <<"n", "o", "d", "e", ":">>) THEN Some(Ok(self.target))
    ELSE IF \E i \in 1..Len(NODE_CORE_MODULES) : NODE_CORE_MODULES[i] = self.target
    THEN Some(Ok(<<"n", "o", "d", "e", ":">> \o self.target))
    ELSE None

\* `if let Some(m) = o { return m }` and what follows it, on Option
some_or(o, otherwise) == IF is_some(o) THEN o ELSE otherwise

RECURSIVE first_relative(_, _)
\* resolve_impl, the loop over the candidates of the TSConfig paths
first_relative(self, paths) ==
    IF Len(paths) = 0 THEN None
    ELSE some_or(load_as_relative(self, paths[1]), first_relative(self, Tail(paths)))

\* the TSConfig paths pass that fails when none of its candidates loads
by_tsconfig_paths_or_fail(self) ==
    bind(resolve_tsconfig(self, self.from), LAMBDA maybe_tsconfig :
    IF maybe_tsconfig.k = "None" THEN None
    ELSE IF maybe_tsconfig.k # "Some" THEN Some(maybe_tsconfig)
    ELSE IF ~is_some(maybe_tsconfig.v.paths) THEN None
    ELSE bind(match_tsconfig_paths(self,
                  IF is_some(maybe_tsconfig.v.base_url)
                  THEN unwrap(maybe_tsconfig.v.base_url) ELSE DOT,
                  unwrap(maybe_tsconfig.v.paths)), LAMBDA paths :
         IF paths.k = "Panic" THEN Some(Panic)
         ELSE some_or(first_relative(self, paths.v), Some(Err("ModuleNotFound")))))

\* the TSConfig paths pass with the errors of resolve_tsconfig only logged
by_tsconfig_paths_logging_errors(self) ==
    bind(resolve_tsconfig(self, self.from), LAMBDA maybe_tsconfig :
    IF maybe_tsconfig.k # "Some" THEN None
    ELSE IF ~is_some(maybe_tsconfig.v.paths) THEN None
    ELSE bind(match_tsconfig_paths(self,
                  IF is_some(maybe_tsconfig.v.base_url)
                  THEN unwrap(maybe_tsconfig.v.base_url) ELSE DOT,
                  unwrap(maybe_tsconfig.v.paths)), LAMBDA paths :
         IF paths.k = "Panic" THEN Some(Panic) ELSE first_relative(self, paths.v)))

\* resolve_impl, the TSConfig paths pass of a bare specifier: Some(result)
\* when it returns from resolve_impl
by_tsconfig_paths(self) ==
    bind(resolve_tsconfig(self, self.from), LAMBDA maybe_tsconfig :
    IF maybe_tsconfig.k = "None" THEN None
    ELSE IF maybe_tsconfig.k # "Some" THEN Some(maybe_tsconfig)
    ELSE IF ~is_some(maybe_tsconfig.v.paths) THEN None
    ELSE bind(match_tsconfig_paths(self,
                  IF is_some(maybe_tsconfig.v.base_url)
                  THEN unwrap(maybe_tsconfig.v.base_url) ELSE DOT,
                  unwrap(maybe_tsconfig.v.paths)), LAMBDA paths :
         IF paths.k = "Panic" THEN Some(Panic) ELSE first_relative(self, paths.v)))

\* resolve_impl, the node_modules pass of a bare specifier
by_node_modules(self, abs_from) ==
    bind(parent(abs_from), LAMBDA maybe_from_dir :
    IF ~is_some(maybe_from_dir) THEN None
    ELSE bind(load_node_modules(self, unwrap(maybe_from_dir), self.target),
              LAMBDA as_node_module :
                  IF as_node_module.k = "Some" THEN Some(ok_with(as_node_module.v))
                  ELSE IF aborts(as_node_module) THEN Some(as_node_module)
                  ELSE None))

\* resolve_impl without the else: a relative target that loads nothing
\* goes on as a bare specifier does
resolve_impl_falling_through(self, is_tsconfig) ==
    bind(core_module(self), LAMBDA shortcut :
    IF is_some(shortcut) THEN unwrap(shortcut)
    ELSE bind(canonicalize(self.from), LAMBDA abs_from :
    IF ~is_some(abs_from) THEN Err("IOError")
    ELSE bind(some_or(IF starts_with(self.target, DOT) \/ starts_with(self.target, SLASH)
                      THEN load_as_relative(self,
                               with_file_name(unwrap(abs_from), self.target))
                      ELSE None,
                      some_or(IF is_tsconfig THEN None ELSE by_tsconfig_paths(self),
                              by_node_modules(self, unwrap(abs_from)))),
              LAMBDA maybe_result :
                  IF is_some(maybe_result) THEN unwrap(maybe_result)
                  ELSE Err("ModuleNotFound"))))

resolve_impl(self, is_tsconfig) ==
    bind(core_module(self), LAMBDA shortcut :
    IF is_some(shortcut) THEN unwrap(shortcut)
    ELSE bind(canonicalize(self.from), LAMBDA abs_from :
    IF ~is_some(abs_from) THEN Err("IOError")
    ELSE bind(IF starts_with(self.target, DOT) \/ starts_with(self.target, SLASH)
              THEN load_as_relative(self, with_file_name(unwrap(abs_from), self.target))
              ELSE some_or(IF is_tsconfig THEN None ELSE by_tsconfig_paths(self),
                           by_node_modules(self, unwrap(abs_from))),
              LAMBDA maybe_result :
                  IF is_some(maybe_result) THEN unwrap(maybe_result)
                  ELSE Err("ModuleNotFound"))))

resolve(self) == resolve_impl(self, FALSE)

(***************************************************************************)
(* The state machine.  A run takes a project, a small tree of the kind     *)
(* the repository's tests/fixtures hold: it creates up to MaxEntries of    *)
(* the project's entries (pc = "setup") and then applies one operation of  *)
(* the resolver to the filesystem built so far (pc = "done").              *)
(***************************************************************************)
MaxEntries == 3

File(path, doc) == [path |-> path, entry |-> FileEntry(doc)]
Text(path) == File(path, TextDoc)
Dir(path) == [path |-> path, entry |-> DirEntry]

Call(op, self, args) == [op |-> op, self |-> self, args |-> args]
NoCall == Call("none", EsResolver(<<>>, <<>>, "Node", default_for("Node")), <<>>)
NotCalled == Res("NotCalled", <<>>, "")

WithExtensions(env, extensions) ==
    [default_for(env) EXCEPT !.extensions = extensions]
WithConditions(env, conditions) ==
    [default_for(env) EXCEPT !.conditions = conditions]
WithMainFields(env, main_fields) ==
    [default_for(env) EXCEPT !.main_fields = main_fields]

FROM == <<"/", "p", "/", "i", "n", "d", "e", "x", ".", "j", "s">>
MISSING == <<"/", "p", "/", "m", "i", "s", "s", "i", "n", "g", ".", "j", "s">>

\* every project starts with the importing file /p/index.js
BaseFs ==
    [q \in {<<<<"p">>>>, <<<<"p">>, <<"i", "n", "d", "e", "x", ".", "j", "s">>>>} |->
        IF Len(q) = 1 THEN DirEntry ELSE FileEntry(TextDoc)]

Projects == {"relative", "directory", "node_modules", "exports", "core", "utils", "patterns",
             "tspaths", "extends", "chase", "names"}

(* tests/fixtures/relative: siblings that differ by their extension *)
RelativeEntries ==
    << Text(<<<<"p">>, <<"x", ".", "t", "s">>>>),
       Text(<<<<"p">>, <<"x", ".", "t", "s", "x">>>>),
       Dir(<<<<"p">>, <<"x", ".", "t", "s", "x">>>>),
       Text(<<<<"p">>, <<"x", ".", "j", "s">>>>),
       Text(<<<<"p">>, <<"x", ".", "c", "s", "s">>>>),
       Text(<<<<"p">>, <<"x">>, <<"i", "n", "d", "e", "x", ".", "t", "s">>>>),
       Text(<<<<"p">>, <<"x", ".", "y", ".", "t", "s">>>>),
       Text(<<<<"p">>, <<"x", ".", "y", ".", "j", "s">>>>),
       Text(<<<<"p">>, <<"j", "s", ".", "t", "s">>>>),
       Text(<<<<"p">>, <<"n", "o", "d", "e", "_", "m", "o", "d", "u", "l", "e", "s">>, <<"x", ".", "t", "s">>>>),
       Text(<<<<"p">>, <<"y", ".", "t", "s">>>>),
       Text(<<<<"p">>, <<"t", "s", "c", "o", "n", "f", "i", "g", ".", "j", "s", "o", "n">>>>),
       File(<<<<"p">>, <<"t", "s", "c", "o", "n", "f", "i", "g", ".", "j", "s", "o", "n">>>>,
            TSConfigDoc(None, Some(<<".">>), Some(<<Entry(<<".", "/", "x">>, <<<<"y">>>>)>>))) >>

RelativeOptions ==
    {<<"Browser", default_for("Browser")>>,
     <<"Browser", WithExtensions("Browser", <<"Js", "Ts", "Css">>)>>}

RelativeCalls ==
    {Call("resolve", EsResolver(t, FROM, eo[1], eo[2]), <<>>) :
        t \in {<<".", "/", "x">>, <<".", "/", "x", ".", "j", "s">>, <<".", "/", "x", ".", "y">>, <<".", ".", "/", "p", "/", "x">>, <<"/", "p", "/", "x">>}, eo \in RelativeOptions}
    \cup {Call("load_as_file", EsResolver(<<>>, FROM, eo[1], eo[2]), <<p>>) :
        p \in {<<"/", "p", "/", "x">>, <<"/", "p", "/", "x", ".", "j", "s">>, <<"/", "p", "/", "x", ".", "y">>, <<"/", "p", "/", "j", "s">>}, eo \in RelativeOptions}

(* tests/fixtures/directory: a directory /p/d with a manifest *)
DirectoryEntries ==
    << File(<<<<"p">>, <<"d">>, <<"p", "a", "c", "k", "a", "g", "e", ".", "j", "s", "o", "n">>>>, PackageDoc(Some(<<"m", ".", "j", "s">>), None, None)),
       File(<<<<"p">>, <<"d">>, <<"p", "a", "c", "k", "a", "g", "e", ".", "j", "s", "o", "n">>>>, PackageDoc(Some(<<>>), Some(<<"n", ".", "j", "s">>), None)),
       File(<<<<"p">>, <<"d">>, <<"p", "a", "c", "k", "a", "g", "e", ".", "j", "s", "o", "n">>>>, PackageDoc(Some(<<"m">>), Some(<<"n", ".", "j", "s">>), None)),
       File(<<<<"p">>, <<"d">>, <<"p", "a", "c", "k", "a", "g", "e", ".", "j", "s", "o", "n">>>>, PackageDoc(None, None, None)),
       Text(<<<<"p">>, <<"d">>, <<"p", "a", "c", "k", "a", "g", "e", ".", "j", "s", "o", "n">>>>),
       Text(<<<<"p">>, <<"d">>, <<"m", ".", "j", "s">>>>),
       Text(<<<<"p">>, <<"d">>, <<"m", ".", "t", "s">>>>),
       Text(<<<<"p">>, <<"d">>, <<"n", ".", "j", "s">>>>),
       Text(<<<<"p">>, <<"d">>, <<"i", "n", "d", "e", "x", ".", "j", "s">>>>),
       Text(<<<<"p">>, <<"d", ".", "t", "s", "x">>>>) >>

DirectoryOptions ==
    {<<"Node", default_for("Node")>>, <<"Browser", default_for("Browser")>>,
     <<"Browser", WithMainFields("Browser", <<"ReactNative", "Main">>)>>}

DirectoryCalls ==
    {Call("resolve", EsResolver(<<".", "/", "d">>, FROM, eo[1], eo[2]), <<>>) : eo \in DirectoryOptions}
    \cup {Call("load_as_directory", EsResolver(<<".", "/", "d">>, FROM, eo[1], eo[2]), <<<<"/", "p", "/", "d">>>>) :
             eo \in DirectoryOptions}

(* tests/fixtures/node_modules_: package k in /p/node_modules and in *)
(* /node_modules                                                      *)
NodeModulesEntries ==
    << Text(<<<<"p">>, <<"n", "o", "d", "e", "_", "m", "o", "d", "u", "l", "e", "s">>, <<"k">>, <<"i", "n", "d", "e", "x", ".", "j", "s">>>>),
       Text(<<<<"n", "o", "d", "e", "_", "m", "o", "d", "u", "l", "e", "s">>, <<"k">>, <<"i", "n", "d", "e", "x", ".", "j", "s">>>>),
       Text(<<<<"n", "o", "d", "e", "_", "m", "o", "d", "u", "l", "e", "s">>, <<"k", ".", "j", "s">>>>),
       Text(<<<<"n", "o", "d", "e", "_", "m", "o", "d", "u", "l", "e", "s">>, <<"@", "k", ".", "j", "s">>>>),
       Text(<<<<"p">>, <<"n", "o", "d", "e", "_", "m", "o", "d", "u", "l", "e", "s">>, <<"k">>, <<"l", "i", "b", ".", "j", "s">>>>),
       Text(<<<<"p">>, <<"n", "o", "d", "e", "_", "m", "o", "d", "u", "l", "e", "s">>, <<"k">>, <<"p", "a", "c", "k", "a", "g", "e", ".", "j", "s", "o", "n">>>>),
       File(<<<<"p">>, <<"n", "o", "d", "e", "_", "m", "o", "d", "u", "l", "e", "s">>, <<"k">>, <<"p", "a", "c", "k", "a", "g", "e", ".", "j", "s", "o", "n">>>>,
            PackageDoc(Some(<<"l", "i", "b", ".", "j", "s">>), None, None)),
       File(<<<<"p">>, <<"n", "o", "d", "e", "_", "m", "o", "d", "u", "l", "e", "s">>, <<"k">>, <<"p", "a", "c", "k", "a", "g", "e", ".", "j", "s", "o", "n">>>>,
            PackageDoc(None, None, Some(ExString(<<".", "/", "e", ".", "j", "s">>)))),
       File(<<<<"p">>, <<"n", "o", "d", "e", "_", "m", "o", "d", "u", "l", "e", "s">>, <<"k">>, <<"p", "a", "c", "k", "a", "g", "e", ".", "j", "s", "o", "n">>>>,
            PackageDoc(None, None, Some(ExObject(<<Entry(<<".", "/", "a">>, Some(ExString(<<".", "/", "a", ".", "j", "s">>)))>>)))),
       Text(<<<<"n", "o", "d", "e", "_", "m", "o", "d", "u", "l", "e", "s">>, <<"k">>, <<"p", "a", "c", "k", "a", "g", "e", ".", "j", "s", "o", "n">>>>),
       File(<<<<"n", "o", "d", "e", "_", "m", "o", "d", "u", "l", "e", "s">>, <<"k">>, <<"p", "a", "c", "k", "a", "g", "e", ".", "j", "s", "o", "n">>>>,
            PackageDoc(None, None, Some(ExString(<<".", "/", "e", ".", "j", "s">>)))) >>

NodeModulesCalls ==
    {Call("resolve", EsResolver(t, FROM, "Browser", default_for("Browser")), <<>>) :
        t \in {<<"k">>, <<"@", "k">>, <<"k", "/", "l", "i", "b">>}}

(* the manifests of tests/fixtures/node_modules_/node_modules/exports*  *)
Manifest(exports) ==
    File(<<<<"p">>, <<"n", "o", "d", "e", "_", "m", "o", "d", "u", "l", "e", "s">>, <<"k">>, <<"p", "a", "c", "k", "a", "g", "e", ".", "j", "s", "o", "n">>>>, PackageDoc(None, None, Some(exports)))

ExportsEntries ==
    << Manifest(ExString(<<".", "/", "m", ".", "j", "s">>)),
       Manifest(ExArray(<<ExObject(<<Entry(<<"i", "m", "p", "o", "r", "t">>, Some(ExString(<<".", "/", "c", ".", "j", "s">>)))>>),
                          ExString(<<".", "/", "a", ".", "j", "s">>)>>)),
       Manifest(ExObject(<<Entry(<<"i", "m", "p", "o", "r", "t">>, Some(ExString(<<".", "/", "i", ".", "j", "s">>))),
                           Entry(<<"r", "e", "q", "u", "i", "r", "e">>, Some(ExString(<<".", "/", "r", ".", "j", "s">>))),
                           Entry(<<"d", "e", "f", "a", "u", "l", "t">>, Some(ExString(<<".", "/", "d", ".", "j", "s">>)))>>)),
       Manifest(ExObject(<<Entry(<<"d", "e", "f", "a", "u", "l", "t">>, Some(ExString(<<".", "/", "d", ".", "j", "s">>))),
                           Entry(<<"i", "m", "p", "o", "r", "t">>, Some(ExString(<<".", "/", "i", ".", "j", "s">>)))>>)),
       Manifest(ExObject(<<Entry(<<"r", "e", "q", "u", "i", "r", "e">>, Some(ExString(<<".", "/", "r", ".", "j", "s">>))),
                           Entry(<<"n", "o", "d", "e">>, Some(ExString(<<".", "/", "n", ".", "j", "s">>)))>>)),
       Manifest(ExObject(<<Entry(<<"i", "m", "p", "o", "r", "t">>, None),
                           Entry(<<"n", "o", "d", "e">>, Some(ExObject(<<Entry(<<"i", "m", "p", "o", "r", "t">>, Some(ExString(<<".", "/", "n", "i", ".", "j", "s">>)))>>))),
                           Entry(<<"d", "e", "f", "a", "u", "l", "t">>, Some(ExString(<<".", "/", "d", ".", "j", "s">>)))>>)),
       Manifest(ExObject(<<Entry(<<".">>, Some(ExString(<<".", "/", "m", ".", "j", "s">>)))>>)),
       Manifest(ExObject(<<Entry(<<".">>, Some(ExObject(<<Entry(<<"i", "m", "p", "o", "r", "t">>, Some(ExString(<<".", "/", "i", ".", "j", "s">>))),
                                                       Entry(<<"r", "e", "q", "u", "i", "r", "e">>, Some(ExString(<<".", "/", "r", ".", "j", "s">>)))>>))),
                           Entry(<<".", "/", "a">>, Some(ExString(<<".", "/", "l", "i", "b", "/", "a", ".", "j", "s">>)))>>)),
       Manifest(ExObject(<<Entry(<<".", "/", "a">>, Some(ExString(<<".", ".", "/", "a", ".", "j", "s">>)))>>)),
       Manifest(ExObject(<<Entry(<<".">>, Some(ExString(<<".", "/", "m", ".", "j", "s">>))),
                           Entry(<<"i", "m", "p", "o", "r", "t">>, Some(ExString(<<".", "/", "i", ".", "j", "s">>)))>>)),
       Manifest(ExObject(<<>>)),
       Text(<<<<"p">>, <<"n", "o", "d", "e", "_", "m", "o", "d", "u", "l", "e", "s">>, <<"k">>, <<"m", ".", "j", "s">>>>),
       Text(<<<<"p">>, <<"n", "o", "d", "e", "_", "m", "o", "d", "u", "l", "e", "s">>, <<"k">>, <<"a", ".", "j", "s">>>>) >>

ExportsOptions ==
    {<<"Node", default_for("Node")>>, <<"Browser", default_for("Browser")>>,
     <<"Node", WithConditions("Node", <<<<"r", "e", "q", "u", "i", "r", "e">>, <<"n", "o", "d", "e">>>>)>>,
     <<"Browser", WithConditions("Browser", <<<<"i", "m", "p", "o", "r", "t">>, <<"r", "e", "q", "u", "i", "r", "e">>>>)>>}

ExportsCalls ==
    {Call("resolve", EsResolver(t, FROM, eo[1], eo[2]), <<>>) :
        t \in {<<"k">>, <<"k", "/", "a">>}, eo \in ExportsOptions}
    \cup {Call("load_package_exports", EsResolver(t, FROM, eo[1], eo[2]),
               <<<<"/", "p", "/", "n", "o", "d", "e", "_", "m", "o", "d", "u", "l", "e", "s">>, t>>) :
             t \in {<<"k">>, <<"k", "/", "a">>}, eo \in ExportsOptions}

(* core modules, and the packages that shadow them outside Node *)
CoreEntries ==
    << Text(<<<<"p">>, <<"n", "o", "d", "e", "_", "m", "o", "d", "u", "l", "e", "s">>, <<"f", "s">>, <<"i", "n", "d", "e", "x", ".", "j", "s">>>>),
       Text(<<<<"n", "o", "d", "e", "_", "m", "o", "d", "u", "l", "e", "s">>, <<"n", "o", "d", "e", ":", "f", "s", ".", "j", "s">>>>),
       Text(<<<<"p">>, <<"m", "i", "s", "s", "i", "n", "g", ".", "j", "s">>, <<"i", "n", "d", "e", "x", ".", "j", "s">>>>) >>

CoreCalls ==
    {Call("resolve", EsResolver(t, f, env, default_for(env)), <<>>) :
        t \in {<<"n", "o", "d", "e", ":", "f", "s">>, <<"n", "o", "d", "e", ":", "z", "z">>, <<"f", "s">>, <<"p", "a", "t", "h">>, <<"k">>},
        f \in {FROM, MISSING}, env \in {"Node", "Browser"}}

(* tests/fixtures/node_modules_/node_modules/exports_star: manifests with *)
(* pattern keys, folder keys, null targets and keys of both kinds         *)
PatternsEntries ==
    << Manifest(ExObject(<<Entry(<<".", "/", "s", "t", "a", "r", "/", "*">>, Some(ExString(<<".", "/", "l", "i", "b", "/", "*", ".", "m", "j", "s">>)))>>)),
       Manifest(ExObject(<<Entry(<<".", "/", "a", "/", "*">>, Some(ExString(<<".", "/", "x", "/", "*">>))),
                           Entry(<<".", "/", "a", "/", "b", "/", "*">>, Some(ExString(<<".", "/", "y", "/", "*">>)))>>)),
       Manifest(ExObject(<<Entry(<<".", "/", "a", "/", "b", "/", "*">>, Some(ExString(<<".", "/", "y", "/", "*">>))),
                           Entry(<<".", "/", "a", "/", "*">>, Some(ExString(<<".", "/", "x", "/", "*">>)))>>)),
       Manifest(ExObject(<<Entry(<<".", "/", "a", "/", "*">>, Some(ExString(<<".", "/", "x", "/", "*">>))),
                           Entry(<<".", "/", "a", "/", "*", ".", "j", "s">>, Some(ExString(<<".", "/", "z", "/", "*">>))),
                           Entry(<<".", "/", "*">>, Some(ExString(<<".", "/", "w", "/", "*">>)))>>)),
       Manifest(ExObject(<<Entry(<<".", "/", "*">>, Some(ExString(<<".", "/", "w", "/", "*">>))),
                           Entry(<<".", "/", "a", "/", "*", ".", "j", "s">>, Some(ExString(<<".", "/", "z", "/", "*">>))),
                           Entry(<<".", "/", "a", "/", "*">>, Some(ExString(<<".", "/", "x", "/", "*">>)))>>)),
       Manifest(ExObject(<<Entry(<<".", "/", "a", "/">>, Some(ExString(<<".", "/", "x", "/">>))),
                           Entry(<<".", "/", "a", "*">>, Some(ExString(<<".", "/", "y", "*">>)))>>)),
       Manifest(ExObject(<<Entry(<<".", "/", "a", "*">>, Some(ExString(<<".", "/", "y", "*">>))),
                           Entry(<<".", "/", "a", "/">>, Some(ExString(<<".", "/", "x", "/">>)))>>)),
       Manifest(ExObject(<<Entry(<<".", "/", "a", "/", "*">>, None),
                           Entry(<<".", "/", "*">>, Some(ExString(<<".", "/", "w", "/", "*">>)))>>)),
       Manifest(ExObject(<<Entry(<<".", "/", "s", "t", "a", "r", "/", "*">>,
                               Some(ExObject(<<Entry(<<"n", "o", "d", "e">>, Some(ExObject(<<Entry(<<"i", "m", "p", "o", "r", "t">>, Some(ExString(<<".", "/", "n", "i", "/", "*", ".", "j", "s">>)))>>))),
                                               Entry(<<"i", "m", "p", "o", "r", "t">>, Some(ExArray(<<ExObject(<<Entry(<<"r", "e", "q", "u", "i", "r", "e">>, Some(ExString(<<".", "/", "r", "/", "*", ".", "j", "s">>)))>>),
                                                                               ExString(<<".", "/", "e", "s", "m", "/", "*", "/", "*", ".", "m", "j", "s">>)>>))),
                                               Entry(<<"d", "e", "f", "a", "u", "l", "t">>, Some(ExString(<<".", "/", "d", "/", "*", ".", "j", "s">>)))>>)))>>)),
       Manifest(ExObject(<<Entry(<<".">>, Some(ExString(<<".", "/", "m", ".", "j", "s">>))),
                           Entry(<<"i", "m", "p", "o", "r", "t">>, Some(ExString(<<".", "/", "i", ".", "j", "s">>)))>>)),
       Manifest(ExObject(<<Entry(<<"i", "m", "p", "o", "r", "t">>, Some(ExString(<<".", "/", "i", ".", "j", "s">>))),
                           Entry(<<".", "/", "a", "/", "*">>, Some(ExString(<<".", "/", "x", "/", "*">>)))>>)),
       Manifest(ExObject(<<Entry(<<"i", "m", "p", "o", "r", "t">>, Some(ExString(<<".", "/", "i", ".", "j", "s">>))),
                           Entry(<<"d", "e", "f", "a", "u", "l", "t">>, Some(ExString(<<".", "/", "d", ".", "j", "s">>)))>>)),
       Manifest(ExObject(<<Entry(<<".", "/", "a", "/", "*">>, Some(ExString(<<".", "/", "x", "/", "*">>))),
                           Entry(<<".", "/", "a", "/", "c">>, None)>>)),
       Manifest(ExObject(<<Entry(<<".", "/", "a", "/", "c">>, None),
                           Entry(<<".", "/", "a", "/", "b", "/", "c">>, Some(ExString(<<".", "/", "y", "/", "c", ".", "j", "s">>)))>>)),
       Manifest(ExObject(<<>>)),
       Manifest(ExArray(<<ExString(<<".", "/", "a", ".", "j", "s">>)>>)),
       Text(<<<<"p">>, <<"n", "o", "d", "e", "_", "m", "o", "d", "u", "l", "e", "s">>, <<"k">>, <<"l", "i", "b">>, <<"i", "n", "d", "e", "x", ".", "m", "j", "s">>>>) >>

PatternsOptions == {<<"Node", default_for("Node")>>, <<"Browser", default_for("Browser")>>}

PatternsCalls ==
    {Call(op, EsResolver(t, FROM, eo[1], eo[2]), <<<<"/", "p", "/", "n", "o", "d", "e", "_", "m", "o", "d", "u", "l", "e", "s">>, t>>) :
        op \in {"resolve", "load_package_exports"},
        t \in {<<"k">>, <<"k", "/", "s", "t", "a", "r", "/", "i", "n", "d", "e", "x">>, <<"k", "/", "a", "/", "c">>, <<"k", "/", "a", "/", "b", "/", "c">>, <<"k", "/", "a", "/", "c", ".", "j", "s">>, <<"k", "/", "a", "/">>, <<"k", "/", "a", "*">>},
        eo \in PatternsOptions}
    \cup {Call("is_conditional_exports_main_sugar", NoCall.self,
               <<unwrap(PatternsEntries[i].entry.doc.exports)>>) :
             i \in {i \in 1..Len(PatternsEntries) : PatternsEntries[i].entry.doc.json}}

(* tests/fixtures/tspaths: a project with compilerOptions.paths *)
TSConfigFile(path, extends, base_url, paths) == File(path, TSConfigDoc(extends, base_url, paths))

TSPathsEntries ==
    << TSConfigFile(<<<<"p">>, <<"t", "s", "c", "o", "n", "f", "i", "g", ".", "j", "s", "o", "n">>>>, None, Some(<<".">>),
                    Some(<<Entry(<<"@", "c", "/", "*">>, <<<<"c", "/", "*">>, <<"d", "/", "*">>>>)>>)),
       TSConfigFile(<<<<"p">>, <<"t", "s", "c", "o", "n", "f", "i", "g", ".", "j", "s", "o", "n">>>>, None, Some(<<".">>), None),
       TSConfigFile(<<<<"p">>, <<"t", "s", "c", "o", "n", "f", "i", "g", ".", "j", "s", "o", "n">>>>, None, None, None),
       TSConfigFile(<<<<"p">>, <<"t", "s", "c", "o", "n", "f", "i", "g", ".", "j", "s", "o", "n">>>>, Some(<<".", "/", "b", "a", "s", "e", ".", "j", "s", "o", "n">>), None, None),
       TSConfigFile(<<<<"p">>, <<"t", "s", "c", "o", "n", "f", "i", "g", ".", "j", "s", "o", "n">>>>, None, Some(<<"/", "p", "/", "s", "r", "c">>),
                    Some(<<Entry(<<"k">>, <<<<".", ".", "/", "l", "i", "b", "/", "k">>>>)>>)),
       Text(<<<<"p">>, <<"t", "s", "c", "o", "n", "f", "i", "g", ".", "j", "s", "o", "n">>>>),
       TSConfigFile(<<<<"p">>, <<"j", "s", "c", "o", "n", "f", "i", "g", ".", "j", "s", "o", "n">>>>, None, Some(<<".">>),
                    Some(<<Entry(<<"@", "c", "/", "*">>, <<<<"d", "/", "*">>>>)>>)),
       Text(<<<<"p">>, <<"b", "a", "s", "e", ".", "j", "s", "o", "n">>>>),
       Dir(<<<<"p">>, <<"b", "a", "s", "e", ".", "j", "s", "o", "n">>>>),
       Text(<<<<"p">>, <<"c">>, <<"T", ".", "t", "s", "x">>>>),
       Text(<<<<"p">>, <<"c">>, <<"T">>, <<"i", "n", "d", "e", "x", ".", "j", "s">>>>),
       Text(<<<<"p">>, <<"d">>, <<"T", ".", "t", "s">>>>),
       Text(<<<<"p">>, <<"l", "i", "b">>, <<"k", ".", "t", "s">>>>),
       Text(<<<<"p">>, <<"n", "o", "d", "e", "_", "m", "o", "d", "u", "l", "e", "s">>, <<"@", "c">>, <<"T", ".", "j", "s">>>>),
       Text(<<<<"p">>, <<"n", "o", "d", "e", "_", "m", "o", "d", "u", "l", "e", "s">>, <<"k">>, <<"i", "n", "d", "e", "x", ".", "j", "s">>>>) >>

TSPathsCalls ==
    {Call("resolve", EsResolver(t, FROM, env, default_for(env)), <<>>) :
        t \in {<<"@", "c", "/", "T">>, <<"c", "/", "T">>, <<"k">>}, env \in {"Node", "Browser"}}

(* tests/fixtures/tspaths: configs that extend one another *)
ExtendsEntries ==
    << TSConfigFile(<<<<"p">>, <<"t", "s", "c", "o", "n", "f", "i", "g", ".", "j", "s", "o", "n">>>>, Some(<<".", "/", "c", "o", "n", "f", "/", "b", ".", "j", "s", "o", "n">>), None, None),
       TSConfigFile(<<<<"p">>, <<"t", "s", "c", "o", "n", "f", "i", "g", ".", "j", "s", "o", "n">>>>, Some(<<".", "/", "c", "o", "n", "f", "/", "b", ".", "j", "s", "o", "n">>), Some(<<"s", "r", "c">>), None),
       TSConfigFile(<<<<"p">>, <<"t", "s", "c", "o", "n", "f", "i", "g", ".", "j", "s", "o", "n">>>>, Some(<<".", "/", "c", "o", "n", "f", "/", "b", ".", "j", "s", "o", "n">>), None,
                    Some(<<Entry(<<"@", "a", "/", "*">>, <<<<"a", "/", "*">>>>)>>)),
       TSConfigFile(<<<<"p">>, <<"t", "s", "c", "o", "n", "f", "i", "g", ".", "j", "s", "o", "n">>>>, None, Some(<<".">>),
                    Some(<<Entry(<<"@", "a", "/", "*">>, <<<<"a", "/", "*">>>>)>>)),
       TSConfigFile(<<<<"p">>, <<"c", "o", "n", "f">>, <<"b", ".", "j", "s", "o", "n">>>>, Some(<<".", "/", "c", ".", "j", "s", "o", "n">>), Some(<<"l", "i", "b">>), None),
       TSConfigFile(<<<<"p">>, <<"c", "o", "n", "f">>, <<"b", ".", "j", "s", "o", "n">>>>, Some(<<".", "/", "c", ".", "j", "s", "o", "n">>), None, None),
       TSConfigFile(<<<<"p">>, <<"c", "o", "n", "f">>, <<"b", ".", "j", "s", "o", "n">>>>, None, None,
                    Some(<<Entry(<<"@", "b", "/", "*">>, <<<<"b", "/", "*">>>>)>>)),
       Text(<<<<"p">>, <<"c", "o", "n", "f">>, <<"b", ".", "j", "s", "o", "n">>>>),
       TSConfigFile(<<<<"p">>, <<"c", "o", "n", "f">>, <<"c", ".", "j", "s", "o", "n">>>>, None, Some(<<".">>),
                    Some(<<Entry(<<"@", "c", "/", "*">>, <<<<"c", "/", "*">>>>)>>)),
       TSConfigFile(<<<<"p">>, <<"c", "o", "n", "f">>, <<"c", ".", "j", "s", "o", "n">>>>, None, None, None) >>

ExtendsCalls ==
    {Call("parse_tsconfig", EsResolver(<<"k">>, FROM, env, default_for(env)), <<<<"/", "p", "/", "t", "s", "c", "o", "n", "f", "i", "g", ".", "j", "s", "o", "n">>>>) :
        env \in {"Node", "Browser"}}
    \cup {Call("resolve", EsResolver(<<"@", "c", "/", "T">>, FROM, "Browser", default_for("Browser")), <<>>)}

(* tests/fixtures/tspaths: configs whose `extends` has to be looked for *)
ChaseEntries ==
    << TSConfigFile(<<<<"p">>, <<"t", "s", "c", "o", "n", "f", "i", "g", ".", "j", "s", "o", "n">>>>, Some(<<".", "/", "b", "a", "s", "e">>), None, None),
       TSConfigFile(<<<<"p">>, <<"t", "s", "c", "o", "n", "f", "i", "g", ".", "j", "s", "o", "n">>>>, Some(<<".", "/", "b", ".", "j", "s", "o", "n">>), None, None),
       TSConfigFile(<<<<"p">>, <<"t", "s", "c", "o", "n", "f", "i", "g", ".", "j", "s", "o", "n">>>>, Some(<<".", "/", "t", "s", "c", "o", "n", "f", "i", "g", ".", "j", "s", "o", "n">>), None, None),
       TSConfigFile(<<<<"p">>, <<"t", "s", "c", "o", "n", "f", "i", "g", ".", "j", "s", "o", "n">>>>, Some(<<"k">>), Some(<<".">>),
                    Some(<<Entry(<<"k">>, <<<<".", "/", "b", "a", "s", "e", ".", "j", "s", "o", "n">>>>)>>)),
       TSConfigFile(<<<<"p">>, <<"b", "a", "s", "e", ".", "j", "s", "o", "n">>>>, None, Some(<<"l", "i", "b">>),
                    Some(<<Entry(<<"k">>, <<<<".", "/", "x">>>>)>>)),
       Dir(<<<<"p">>, <<"b", "a", "s", "e", ".", "j", "s", "o", "n">>>>),
       Text(<<<<"p">>, <<"b", "a", "s", "e", ".", "t", "s">>>>),
       Text(<<<<"p">>, <<"b", "a", "s", "e", ".", "t", "s", "x">>>>),
       TSConfigFile(<<<<"p">>, <<"b", ".", "j", "s", "o", "n">>>>, Some(<<".", "/", "t", "s", "c", "o", "n", "f", "i", "g", ".", "j", "s", "o", "n">>), None, None),
       TSConfigFile(<<<<"p">>, <<"n", "o", "d", "e", "_", "m", "o", "d", "u", "l", "e", "s">>, <<"k", ".", "j", "s", "o", "n">>>>, None, Some(<<".">>), None) >>

ChaseCalls ==
    {Call("parse_tsconfig", EsResolver(<<"k">>, FROM, env, default_for(env)), <<<<"/", "p", "/", "t", "s", "c", "o", "n", "f", "i", "g", ".", "j", "s", "o", "n">>>>) :
        env \in {"Node", "Browser"}}
    \cup {Call("resolve", EsResolver(<<"k">>, FROM, "Browser", default_for("Browser")), <<>>)}

(* specifiers that parse_package_name takes apart, with and without a *)
(* scope, and the files of /p/node_modules they name                   *)
NamesEntries ==
    << Text(<<<<"p">>, <<"n", "o", "d", "e", "_", "m", "o", "d", "u", "l", "e", "s">>, <<"@", ".", "j", "s">>>>),
       Text(<<<<"p">>, <<"n", "o", "d", "e", "_", "m", "o", "d", "u", "l", "e", "s">>, <<"@", "s", ".", "j", "s">>>>),
       Text(<<<<"p">>, <<"n", "o", "d", "e", "_", "m", "o", "d", "u", "l", "e", "s">>, <<"@", "s">>, <<"k">>, <<"i", "n", "d", "e", "x", ".", "j", "s">>>>),
       File(<<<<"p">>, <<"n", "o", "d", "e", "_", "m", "o", "d", "u", "l", "e", "s">>, <<"@", "s">>, <<"k">>, <<"p", "a", "c", "k", "a", "g", "e", ".", "j", "s", "o", "n">>>>,
            PackageDoc(None, None, Some(ExObject(<<Entry(<<".", "/", "a">>, Some(ExString(<<".", "/", "a", ".", "j", "s">>)))>>)))),
       Text(<<<<"p">>, <<"n", "o", "d", "e", "_", "m", "o", "d", "u", "l", "e", "s">>, <<"@", "s">>, <<"k">>, <<"a", ".", "j", "s">>>>),
       Text(<<<<"p">>, <<"n", "o", "d", "e", "_", "m", "o", "d", "u", "l", "e", "s">>, <<"i", "n", "d", "e", "x", ".", "j", "s">>>>) >>

NamesCalls ==
    {Call(op, EsResolver(t, FROM, env, default_for(env)), <<t>>) :
        op \in {"resolve", "parse_package_name"},
        t \in {<<>>, <<"@">>, <<"@", "s">>, <<"@", "s", "/", "k">>, <<"@", "s", "/", "k", "/", "a">>, <<"k", "%">>, <<".", "k">>},
        env \in {"Node", "Browser"}}

(* utils.rs and match_tsconfig_paths read no file: their arguments are  *)
(* the keys and the `paths` objects of tests/fixtures/tspaths             *)
PatternKeys ==
    {<<>>, <<".", "/", "a">>, <<".", "/", "b">>, <<".", "/", "a", "b">>, <<".", "/", "a", "b", "c">>, <<".", "/", "a", "*">>, <<".", "/", "*">>, <<".", "/", "a", "*", "b">>, <<".", "/", "*", "b">>, <<".", "/", "a", "/", "*">>, <<".", "/", "a", "/">>}

PathsObjects ==
    {<<Entry(<<"@", "c", "/", "*">>, <<<<"c", "/", "*">>>>)>>,
     <<Entry(<<"@", "u", "/", "*">>, <<<<"u", "/", "*">>>>), Entry(<<"@", "u", "/", "h", "/", "*">>, <<<<".", "/", "@", "h", "/", "*">>>>)>>,
     <<Entry(<<"@", "u", "/", "h", "/", "*">>, <<<<".", "/", "@", "h", "/", "*">>>>), Entry(<<"@", "u", "/", "*">>, <<<<"u", "/", "*">>>>)>>,
     <<Entry(<<"@", "u", "/", "*", "t">>, <<<<"s", "/", "*">>>>), Entry(<<"@", "u", "/", "*">>, <<<<"u", "/", "*">>>>), Entry(<<"*">>, <<<<"z", "/", "*">>>>)>>,
     <<Entry(<<"*">>, <<<<"z", "/", "*">>>>), Entry(<<"@", "u", "/", "*">>, <<<<"u", "/", "*">>>>), Entry(<<"@", "u", "/", "*", "t">>, <<<<"s", "/", "*">>>>)>>,
     <<Entry(<<"k">>, <<<<"a">>, <<"b">>>>), Entry(<<"*">>, <<<<"z", "/", "*">>>>)>>,
     <<Entry(<<"*">>, <<<<"x", "/", "*">>, <<"y", "/", "*", "/", "*">>>>)>>,
     <<Entry(<<"@", "c", "/", "*">>, <<>>)>>,
     <<Entry(<<"@", "c", "/", "*">>, <<<<"/", "a", "b", "s", "/", "*">>>>)>>,
     <<Entry(<<"a", "*", "a">>, <<<<"x", "/", "*">>>>)>>}

(* keys with one '*' and the strings they are matched with: targets that *)
(* the key captures a part of, an empty part among them, targets that    *)
(* lack the prefix or the suffix, and targets shorter than the two       *)
StarPatterns == {<<"*">>, <<"a", "*">>, <<"*", "a">>, <<"a", "*", "a">>, <<"a", "b", "*", "b", "c">>, <<".", "/", "a", "/", "*">>, <<".", "/", "*", ".", "j", "s">>}

StarTargets == {<<>>, <<"a">>, <<"a", "a">>, <<"a", "b", "a">>, <<"a", "b", "c">>, <<"a", "b", "b", "c">>, <<"a", "b", "x", "b", "c">>, <<"b">>, <<".", "/", "a", "/">>, <<".", "/", "a", "/", "x">>, <<".", "/", "x", ".", "j", "s">>, <<".", "j", "s">>}

UtilsCalls ==
    {Call("pattern_key_compare", NoCall.self, <<a, b>>) : a \in PatternKeys, b \in PatternKeys}
    \cup {Call("match_tsconfig_paths", EsResolver(t, FROM, "Browser", default_for("Browser")),
               <<base_url, paths>>) :
             t \in {<<"@", "c", "/", "T">>, <<"c", "/", "T">>, <<"@", "u", "/", "h", "/", "t">>, <<"k">>, <<"a">>, <<"a", "b", "a">>},
             base_url \in {<<"/", "p">>, <<".">>}, paths \in PathsObjects}
    \cup {Call(op, NoCall.self, <<pattern, target>>) :
             op \in {"match_exports_pattern", "extract_exports_pattern"},
             pattern \in StarPatterns, target \in StarTargets}

Candidates(p) ==
    CASE p = "relative" -> RelativeEntries
      [] p = "directory" -> DirectoryEntries
      [] p = "node_modules" -> NodeModulesEntries
      [] p = "exports" -> ExportsEntries
      [] p = "core" -> CoreEntries
      [] p = "utils" -> <<>>
      [] p = "patterns" -> PatternsEntries
      [] p = "tspaths" -> TSPathsEntries
      [] p = "extends" -> ExtendsEntries
      [] p = "chase" -> ChaseEntries
      [] p = "names" -> NamesEntries

Calls(p) ==
    CASE p = "relative" -> RelativeCalls
      [] p = "directory" -> DirectoryCalls
      [] p = "node_modules" -> NodeModulesCalls
      [] p = "exports" -> ExportsCalls
      [] p = "core" -> CoreCalls
      [] p = "utils" -> UtilsCalls
      [] p = "patterns" -> PatternsCalls
      [] p = "tspaths" -> TSPathsCalls
      [] p = "extends" -> ExtendsCalls
      [] p = "chase" -> ChaseCalls
      [] p = "names" -> NamesCalls

Init ==
    /\ project \in Projects
    /\ fs = BaseFs
    /\ cwd = <<>>
    /\ profile \in {"release", "debug"}
    /\ pc = "setup"
    /\ call = NoCall
    /\ result = NotCalled

ancestors(path) == {SubSeq(path, 1, n) : n \in 1..(Len(path) - 1)}

created == {Candidates(project)[i].path : i \in 1..Len(Candidates(project))} \cap DOMAIN fs

\* create one entry, with the directories above it (mkdir -p)
Create(c) ==
    /\ pc = "setup"
    /\ Cardinality(created) < MaxEntries
    /\ c.path \notin DOMAIN fs
    /\ \A a \in ancestors(c.path) : a \in DOMAIN fs => fs[a].kind = "dir"
    /\ fs' = [q \in DOMAIN fs \cup ancestors(c.path) \cup {c.path} |->
                 IF q = c.path THEN c.entry
                 ELSE IF q \in DOMAIN fs THEN fs[q] ELSE DirEntry]
    /\ UNCHANGED <<cwd, profile, project, pc, call, result>>

WriteFile ==
    \E i \in 1..Len(Candidates(project)) :
        Candidates(project)[i].entry.kind = "file" /\ Create(Candidates(project)[i])

MakeDir ==
    \E i \in 1..Len(Candidates(project)) :
        Candidates(project)[i].entry.kind = "dir" /\ Create(Candidates(project)[i])

\* apply an operation to the filesystem as it is now
Apply(c, r) ==
    /\ pc = "setup"
    /\ pc' = "done"
    /\ call' = c
    /\ result' = r
    /\ UNCHANGED <<fs, cwd, profile, project>>

Resolve ==
    \E c \in Calls(project) : c.op = "resolve" /\ Apply(c, resolve(c.self))

LoadAsFile ==
    \E c \in Calls(project) :
        c.op = "load_as_file" /\ Apply(c, load_as_file(c.args[1], c.self.options.extensions))

LoadAsDirectory ==
    \E c \in Calls(project) :
        c.op = "load_as_directory" /\ Apply(c, load_as_directory(c.self, c.args[1]))

LoadPackageExports ==
    \E c \in Calls(project) :
        c.op = "load_package_exports"
        /\ Apply(c, load_package_exports(c.self, c.args[1], c.args[2]))

IsConditionalExportsMainSugar ==
    \E c \in Calls(project) :
        c.op = "is_conditional_exports_main_sugar"
        /\ Apply(c, is_conditional_exports_main_sugar(c.args[1]))

ParseTSConfig ==
    \E c \in Calls(project) :
        c.op = "parse_tsconfig" /\ Apply(c, parse_tsconfig(c.self, c.args[1], {}))

PatternKeyCompare ==
    \E c \in Calls(project) :
        c.op = "pattern_key_compare"
        /\ Apply(c, Res("Ok", pattern_key_compare(c.args[1], c.args[2]), ""))

MatchTSConfigPaths ==
    \E c \in Calls(project) :
        c.op = "match_tsconfig_paths"
        /\ Apply(c, match_tsconfig_paths(c.self, c.args[1], c.args[2]))

ParsePackageName ==
    \E c \in Calls(project) :
        c.op = "parse_package_name" /\ Apply(c, parse_package_name(c.args[1]))

MatchExportsPattern ==
    \E c \in Calls(project) :
        c.op = "match_exports_pattern"
        /\ Apply(c, Res("Ok", match_exports_pattern(c.args[1], c.args[2]), ""))

ExtractExportsPattern ==
    \E c \in Calls(project) :
        c.op = "extract_exports_pattern"
        /\ Apply(c, extract_exports_pattern(c.args[1], c.args[2]))

Next ==
    \/ WriteFile
    \/ MakeDir
    \/ Resolve
    \/ LoadAsFile
    \/ LoadAsDirectory
    \/ LoadPackageExports
    \/ IsConditionalExportsMainSugar
    \/ ParseTSConfig
    \/ PatternKeyCompare
    \/ MatchTSConfigPaths
    \/ ParsePackageName
    \/ MatchExportsPattern
    \/ ExtractExportsPattern

Spec == Init /\ [][Next]_vars

(***************************************************************************)
(* Properties of the resolver.  Returned(op) holds in the states where     *)
(* the operation op has been applied: call holds its arguments and result  *)
(* what it returned on the filesystem fs.                                  *)
(***************************************************************************)
Returned(op) == pc = "done" /\ call.op = op

is_relative(target) == starts_with(target, DOT) \/ starts_with(target, SLASH)

is_core(target) == \E i \in 1..Len(NODE_CORE_MODULES) : NODE_CORE_MODULES[i] = target

\* base + "." + extension
appended(base, extension) == base \o DOT \o to_str(extension)

\* C1: whenever resolve returns Ok(s) and s does not start with "node:", s
\* is an absolute path that is equal to its own lexical clean; this
\* includes the bare specifiers whose package declares exports in which
\* nothing matches the requested subpath.
C1_OkIsCleanAbsolutePath ==
    (Returned("resolve") /\ result.k = "Ok" /\ ~starts_with(result.v, <<"n", "o", "d", "e", ":">>))
        => (is_absolute(result.v) /\ clean(result.v) = result.v)

\* C2: with env = Node, resolve returns a target that starts with "node:"
\* unchanged and "node:" + target for a target of the core-module table,
\* whatever the filesystem holds and whether `from` exists or not; with
\* env = Browser the shortcut is not taken: a missing `from` is an IOError
\* and the shortcut's answer is never returned.
C2_CoreModuleShortcut ==
    Returned("resolve") =>
        LET target == call.self.target
            shortcut == IF starts_with(target, <<"n", "o", "d", "e", ":">>) THEN Ok(target)
                        ELSE Ok(<<"n", "o", "d", "e", ":">> \o target)
        IN  (starts_with(target, <<"n", "o", "d", "e", ":">>) \/ is_core(target)) =>
                /\ call.self.env = "Node" => result = shortcut
                /\ call.self.env = "Browser" =>
                       /\ result # shortcut
                       /\ ~exists(call.self.from) => result = Err("IOError")

\* a core module resolved in Node from a file that does not exist, next to
\* a package of the same name in node_modules
C2_Witness ==
    /\ Returned("resolve")
    /\ call.self.env = "Node"
    /\ call.self.target = <<"f", "s">>
    /\ call.self.from = MISSING
    /\ ~exists(MISSING)
    /\ is_file(<<"/", "p", "/", "n", "o", "d", "e", "_", "m", "o", "d", "u", "l", "e", "s", "/", "f", "s", "/", "i", "n", "d", "e", "x", ".", "j", "s">>)
    /\ result = Ok(<<"n", "o", "d", "e", ":", "f", "s">>)

\* the manifest that the nearest node_modules holds for the package of a
\* bare target: Some(document) when it can be read
nearest_manifest(self) ==
    read_to_string(
        join(join(join(unwrap(parent(unwrap(canonicalize(self.from)))), NODE_MODULES),
                  parse_package_name(self.target).v[1]),
             PACKAGE_JSON))

\* C3: when the node_modules walk finds the package's package.json
\* readable but not valid JSON for the manifest, resolve returns
\* Err(InvalidPackageJSON).
C3_InvalidPackageJSONSurfaces ==
    (/\ Returned("resolve")
     /\ ~is_relative(call.self.target)
     /\ ~is_some(core_module(call.self))
     /\ exists(call.self.from)
     /\ by_tsconfig_paths(call.self) = None
     /\ parse_package_name(call.self.target).k = "Ok"
     /\ is_some(nearest_manifest(call.self))
     /\ ~unwrap(nearest_manifest(call.self)).json)
        => result = Err("InvalidPackageJSON")

\* C4: for a target that starts with "." or "/", resolve returns
\* load_as_file(A) if it hits, else load_as_directory(A) if it hits, else
\* Err(ModuleNotFound), for A = parent(canonical from) joined with target;
\* nothing else on the filesystem has a part in the result.
C4_RelativeTarget ==
    (Returned("resolve") /\ is_relative(call.self.target) /\ exists(call.self.from)) =>
        LET A == join(unwrap(parent(unwrap(canonicalize(call.self.from)))), call.self.target)
            as_file == load_as_file(A, call.self.options.extensions)
            as_directory == load_as_directory(call.self, A)
        IN  result = IF as_file.k = "Some" THEN Ok(clean(as_file.v))
                     ELSE IF as_directory.k = "Some" THEN Ok(clean(as_directory.v))
                     ELSE Err("ModuleNotFound")

\* './x' is not found although the TSConfig maps it to y, which exists, and
\* node_modules holds an x.ts
C4_Witness ==
    /\ Returned("resolve")
    /\ call.self.target = <<".", "/", "x">>
    /\ is_file(<<"/", "p", "/", "t", "s", "c", "o", "n", "f", "i", "g", ".", "j", "s", "o", "n">>)
    /\ is_file(<<"/", "p", "/", "y", ".", "t", "s">>)
    /\ is_file(<<"/", "p", "/", "n", "o", "d", "e", "_", "m", "o", "d", "u", "l", "e", "s", "/", "x", ".", "t", "s">>)
    /\ result = Err("ModuleNotFound")

\* C5: when the base path is not a file and several sibling files differ
\* from it only by an extension of options.extensions, load_as_file
\* returns the one whose extension comes first in options.extensions.
C5_ExtensionPriority ==
    (Returned("load_as_file") /\ ~is_file(call.args[1])) =>
        LET extensions == call.self.options.extensions
            siblings == {i \in 1..Len(extensions) :
                            is_file(appended(call.args[1], extensions[i]))}
        IN  Cardinality(siblings) >= 2 =>
                result = SomeP(appended(call.args[1], extensions[first_of(siblings)]))

\* the entry of the rewrite table for a base path that ends with "." and
\* the entry's extension
rewrites(base) ==
    {i \in 1..Len(REWRITTEN_EXTENSIONS) :
        str_ends_with(base, DOT \o to_str(REWRITTEN_EXTENSIONS[i][1]))}

\* C6: when the base path ends with ".js" (.jsx, .cjs, .mjs), is not a
\* file, and no candidate with an appended extension exists, load_as_file
\* returns the first that exists of the paths in which the trailing
\* extension is replaced by the table's replacements, in table order, and
\* nothing when none exists.
C6_RewrittenExtensions ==
    (/\ Returned("load_as_file")
     /\ rewrites(call.args[1]) # {}
     /\ ~is_file(call.args[1])
     /\ \A i \in 1..Len(call.self.options.extensions) :
            ~exists(appended(call.args[1], call.self.options.extensions[i])))
        => LET entry == REWRITTEN_EXTENSIONS[first_of(rewrites(call.args[1]))]
               stem == slice(call.args[1], 0, Len(call.args[1]) - Len(to_str(entry[1])) - 1)
               hits == {i \in 1..Len(entry[2]) : exists(appended(stem, entry[2][i]))}
           IN  result = IF hits = {} THEN NoneP
                        ELSE SomeP(appended(stem, entry[2][first_of(hits)]))

\* C7: load_as_directory(D) returns the hit of the first main field, in
\* options.main_fields order, whose non-empty manifest value M makes
\* load_as_file(D joined with M) hit, and load_index(D) when there is none;
\* an empty value is skipped.
C7_MainFieldsThenIndex ==
    Returned("load_as_directory") =>
        LET D == call.args[1]
            main_fields == call.self.options.main_fields
            manifest == load_package_json(join(D, PACKAGE_JSON))
            M(i) == get_main_field(manifest.v, main_fields[i])
            as_file(i) == load_as_file(join(D, unwrap(M(i))), call.self.options.extensions)
            hits == IF manifest.k # "Ok" THEN {}
                    ELSE {i \in 1..Len(main_fields) :
                             is_some(M(i)) /\ unwrap(M(i)) # <<>> /\ as_file(i).k = "Some"}
        IN  result = IF hits # {} THEN as_file(first_of(hits)) ELSE load_index(call.self, D)

RECURSIVE dirs_up(_)
\* a directory and the directories above it, nearest first
dirs_up(dir) == IF is_some(parent(dir)) THEN <<dir>> \o dirs_up(unwrap(parent(dir))) ELSE <<dir>>

\* what one node_modules directory gives for a name: the outcome of
\* the package exports (a path, an error, or a call that does not
\* return) unless it is no path, a missing package or an invalid
\* specifier, then the name as a file, then as a directory
in_node_modules(self, node_modules_dir, name) ==
    LET by_exports == load_package_exports(self, node_modules_dir, name)
        as_file == load_as_file(join(node_modules_dir, name), self.options.extensions)
    IN  IF by_exports.k = "Some" \/ aborts(by_exports) THEN by_exports
        ELSE IF by_exports.k = "Err"
                /\ by_exports.e \notin {"IOError", "InvalidModuleSpecifier"}
        THEN by_exports
        ELSE IF as_file.k = "Some" THEN as_file
        ELSE load_as_directory(self, join(node_modules_dir, name))

\* C8: for a bare specifier that no TSConfig maps, the result of resolve
\* is the hit of the nearest node_modules directory that has one, going
\* from the directory of `from` up to the root, and inside one directory
\* the package exports come before the file and the file before the
\* directory; a missing package or an invalid specifier at one level does
\* not end the walk; with no hit at any level the module is not found.
C8_NearestNodeModulesFirst ==
    (/\ Returned("resolve")
     /\ ~is_relative(call.self.target)
     /\ ~is_some(core_module(call.self))
     /\ exists(call.self.from)
     /\ by_tsconfig_paths(call.self) = None)
        => LET levels == dirs_up(unwrap(parent(unwrap(canonicalize(call.self.from)))))
               at(i) == in_node_modules(call.self, join(levels[i], NODE_MODULES),
                                        call.self.target)
               stops == {i \in 1..Len(levels) : at(i).k # "None"}
           IN  IF stops = {} THEN result = Err("ModuleNotFound")
               ELSE at(first_of(stops)).k = "Some" =>
                        result = Ok(clean(at(first_of(stops)).v))

\* package k is in /p/node_modules and in /node_modules: the nearer one is
\* the result
C8_Witness ==
    /\ Returned("resolve")
    /\ call.self.target = <<"k">>
    /\ is_file(<<"/", "p", "/", "n", "o", "d", "e", "_", "m", "o", "d", "u", "l", "e", "s", "/", "k", "/", "i", "n", "d", "e", "x", ".", "j", "s">>)
    /\ is_file(<<"/", "n", "o", "d", "e", "_", "m", "o", "d", "u", "l", "e", "s", "/", "k", "/", "i", "n", "d", "e", "x", ".", "j", "s">>)
    /\ result = Ok(<<"/", "p", "/", "n", "o", "d", "e", "_", "m", "o", "d", "u", "l", "e", "s", "/", "k", "/", "i", "n", "d", "e", "x", ".", "j", "s">>)

\* the manifest that load_package_exports reads for its arguments
exports_manifest(c) ==
    load_package_json(join(join(c.args[1], parse_package_name(c.args[2]).v[1]), PACKAGE_JSON))

\* exports that stand for a mapping of ".": a String, an Array, or an
\* Object with keys that are all condition keys
is_sugar(exports) ==
    \/ exports.t \in {"String", "Array"}
    \/ /\ exports.t = "Object"
       /\ Len(exports.o) > 0
       /\ \A i \in 1..Len(exports.o) : ~starts_with(exports.o[i].key, DOT)

\* C9: for exports E that is a String, an Array or an Object of condition
\* keys, load_package_exports gives for every subpath what it gives for
\* exports = {".": E}; a subpath other than "." obtains no target from E.
C9_SugarIsDotMapping ==
    (/\ Returned("load_package_exports")
     /\ parse_package_name(call.args[2]).k = "Ok"
     /\ exports_manifest(call).k = "Ok"
     /\ is_some(exports_manifest(call).v.exports)
     /\ is_sugar(unwrap(exports_manifest(call).v.exports)))
        => LET parsed == parse_package_name(call.args[2]).v
               package_json_path == join(join(call.args[1], parsed[1]), PACKAGE_JSON)
               E == unwrap(exports_manifest(call).v.exports)
           IN  result = match_package_exports(call.self, package_json_path,
                            ExObject(<<Entry(DOT, Some(E))>>), DOT \o parsed[2])

is_pattern(key) == contains(key, "*")

\* the characters before '*' and one more, or the whole key without '*'
base_length(key) ==
    IF is_pattern(key)
    THEN Cardinality({i \in 1..Len(key) : \A j \in 1..i : key[j] # "*"}) + 1
    ELSE Len(key)

\* C19 as stated: pattern_key_compare(a, b) is -1 when a has the longer
\* base length and +1 when b has; on equal base length -1 when a is a
\* non-pattern key and b a pattern key, +1 in the opposite case; otherwise
\* -1 / +1 for the longer total length and 0 on a full tie, so 0 for two
\* non-pattern keys of equal length.
C19_NonPatternKeyFirst ==
    Returned("pattern_key_compare") =>
        LET a == call.args[1]
            b == call.args[2]
        IN  result.v = IF base_length(a) > base_length(b) THEN -1
                       ELSE IF base_length(b) > base_length(a) THEN 1
                       ELSE IF ~is_pattern(a) /\ is_pattern(b) THEN -1
                       ELSE IF is_pattern(a) /\ ~is_pattern(b) THEN 1
                       ELSE IF Len(a) > Len(b) THEN -1
                       ELSE IF Len(b) > Len(a) THEN 1
                       ELSE 0

\* C19 as amended: pattern_key_compare(a, b) is -1 when a has the longer
\* base length and +1 when b has; on equal base length +1 when a is a
\* non-pattern key (also when b is one, so two non-pattern keys of equal
\* length give +1), -1 when a is a pattern key and b a non-pattern key;
\* for two pattern keys -1 / +1 for the longer total length and 0 on a
\* full tie.
C19_PatternKeyFirst ==
    Returned("pattern_key_compare") =>
        LET a == call.args[1]
            b == call.args[2]
        IN  result.v = IF base_length(a) > base_length(b) THEN -1
                       ELSE IF base_length(b) > base_length(a) THEN 1
                       ELSE IF ~is_pattern(a) THEN 1
                       ELSE IF ~is_pattern(b) THEN -1
                       ELSE IF Len(a) > Len(b) THEN -1
                       ELSE IF Len(b) > Len(a) THEN 1
                       ELSE 0

\* './ab' against './a*': equal base length, and the pattern key is first
C19_Witness ==
    /\ Returned("pattern_key_compare")
    /\ call.args = <<<<".", "/", "a", "b">>, <<".", "/", "a", "*">>>>
    /\ result.v = 1


\* a pattern key pre + '*' + suf and a target that is pre + c + suf
pattern_matches(key, target) ==
    LET star == find(key, "*")
        pre == slice(key, 0, star)
        suf == slice(key, star + 1, Len(key))
    IN  /\ Len(target) >= Len(pre) + Len(suf)
        /\ starts_with(target, pre)
        /\ str_ends_with(target, suf)

\* the c of target = pre + c + suf
captured(key, target) ==
    LET star == find(key, "*")
    IN  slice(target, star, Len(target) - (Len(key) - star - 1))

\* a is the more specific of two pattern keys
more_specific(a, b) ==
    \/ base_length(a) > base_length(b)
    \/ base_length(a) = base_length(b) /\ Len(a) > Len(b)

keys_of(map) == {map[i].key : i \in 1..Len(map)}

\* C20: match_tsconfig_paths returns, when paths has the target as a key,
\* base_url joined with each of that key's templates in order; otherwise,
\* when pattern keys match, base_url joined with each template of the best
\* of them, its first '*' replaced by the captured substring, in order;
\* otherwise the one candidate base_url joined with target.  The list is
\* as long as the template list, so never empty or absent for a non-empty
\* template list.
C20_MatchTSConfigPaths ==
    Returned("match_tsconfig_paths") =>
        LET target == call.self.target
            base_url == call.args[1]
            paths == call.args[2]
            templates(key) == unwrap(map_get(paths, key))
            matching == {key \in keys_of(paths) : is_pattern(key) /\ pattern_matches(key, target)}
            best == CHOOSE key \in matching :
                        \A other \in matching \ {key} : more_specific(key, other)
        IN  result = Res("Ok",
                IF target \in keys_of(paths)
                THEN [i \in 1..Len(templates(target)) |-> join(base_url, templates(target)[i])]
                ELSE IF matching # {}
                THEN [i \in 1..Len(templates(best)) |->
                         join(base_url, replacen1(templates(best)[i], "*", captured(best, target)))]
                ELSE <<join(base_url, target)>>, "")


\* a key matches a target that it equals or, with a '*', that it captures
key_matches(key, target) ==
    IF is_pattern(key) THEN pattern_matches(key, target) ELSE key = target

\* the keys of a set that no other key of the set beats
maximal_keys(matching) ==
    {key \in matching : \A other \in matching \ {key} : pattern_key_compare(key, other) # 1}

\* every insertion order of a map
orders_of(map) ==
    {[i \in 1..Len(map) |-> map[f[i]]] :
        f \in {g \in [1..Len(map) -> 1..Len(map)] :
                  \A a, b \in 1..Len(map) : a # b => g[a] # g[b]}}

\* the exports of load_package_exports come to the pattern loop: an Object
\* of subpath keys in which the subpath has no target of its own
in_pattern_loop(exports, package_subpath) ==
    /\ exports.t = "Object"
    /\ Len(exports.o) > 0
    /\ \A i \in 1..Len(exports.o) : starts_with(exports.o[i].key, DOT)
    /\ \/ contains(package_subpath, "*")
       \/ str_ends_with(package_subpath, SLASH)
       \/ \A i \in 1..Len(exports.o) :
              exports.o[i].key = package_subpath => ~is_some(exports.o[i].value)

\* C11: in the pattern loop of load_package_exports and in
\* match_tsconfig_paths, the key selected among the keys that match the
\* target (and have a value) is one that no other matching key beats by
\* pattern_key_compare, no matching key has a longer literal prefix (base
\* length), and every insertion order of the map gives the same result.
C11_MostSpecificKeySelected ==
    /\ (/\ Returned("load_package_exports")
        /\ parse_package_name(call.args[2]).k = "Ok"
        /\ exports_manifest(call).k = "Ok"
        /\ is_some(exports_manifest(call).v.exports)
        /\ in_pattern_loop(unwrap(exports_manifest(call).v.exports),
                           DOT \o parse_package_name(call.args[2]).v[2]))
       => LET parsed == parse_package_name(call.args[2]).v
              package_json_path == join(join(call.args[1], parsed[1]), PACKAGE_JSON)
              package_subpath == DOT \o parsed[2]
              map == unwrap(exports_manifest(call).v.exports).o
              matching == {map[i].key : i \in {i \in 1..Len(map) :
                              is_some(map[i].value) /\ key_matches(map[i].key, package_subpath)}}
              subpath(key) == IF is_pattern(key) THEN captured(key, package_subpath)
                              ELSE package_subpath
          IN  matching # {} =>
                  /\ \E selected \in maximal_keys(matching) :
                        /\ \A key \in matching : base_length(key) <= base_length(selected)
                        /\ result = resolve_package_target(call.self, package_json_path,
                                        unwrap(unwrap(map_get(map, selected))),
                                        subpath(selected), TRUE)
                  /\ \A order \in orders_of(map) :
                        match_package_exports(call.self, package_json_path,
                                              ExObject(order), package_subpath) = result
    /\ (Returned("match_tsconfig_paths") /\ call.self.target \notin keys_of(call.args[2]))
       => LET target == call.self.target
              base_url == call.args[1]
              paths == call.args[2]
              matching == {key \in keys_of(paths) : key_matches(key, target)}
              templates(key) == unwrap(map_get(paths, key))
          IN  matching # {} =>
                  /\ \E selected \in maximal_keys(matching) :
                        /\ \A key \in matching : base_length(key) <= base_length(selected)
                        /\ result = Res("Ok",
                               [i \in 1..Len(templates(selected)) |->
                                   join(base_url, replacen1(templates(selected)[i], "*",
                                                            captured(selected, target)))], "")
                  /\ \A order \in orders_of(paths) :
                        match_tsconfig_paths(call.self, base_url, order) = result

\* './a/b/c' with the keys './a/*' and './a/b/*' in this order: the second
\* key is the one selected
C11_Witness ==
    /\ Returned("load_package_exports")
    /\ call.args[2] = <<"k", "/", "a", "/", "b", "/", "c">>
    /\ exports_manifest(call).k = "Ok"
    /\ exports_manifest(call).v.exports =
           Some(ExObject(<<Entry(<<".", "/", "a", "/", "*">>, Some(ExString(<<".", "/", "x", "/", "*">>))),
                           Entry(<<".", "/", "a", "/", "b", "/", "*">>, Some(ExString(<<".", "/", "y", "/", "*">>)))>>))
    /\ result = SomeP(<<"/", "p", "/", "n", "o", "d", "e", "_", "m", "o", "d", "u", "l", "e", "s", "/", "k", "/", ".", "/", "y", "/", "c">>)


RECURSIVE target_string(_, _)
\* the target string that a target comes to: itself, the value of the
\* first condition key (listed or "default", with a value) that comes to
\* one, the first element of an array that comes to one
target_string(conditions, target) ==
    IF target.t = "String" THEN Some(target.s)
    ELSE IF target.t = "Object"
    THEN LET hits == {i \in 1..Len(target.o) :
                         /\ target.o[i].key \in {conditions[j] : j \in 1..Len(conditions)}
                                                    \cup {S_default}
                         /\ is_some(target.o[i].value)
                         /\ is_some(target_string(conditions, unwrap(target.o[i].value)))}
         IN  IF hits = {} THEN None
             ELSE target_string(conditions, unwrap(target.o[first_of(hits)].value))
    ELSE LET hits == {i \in 1..Len(target.a) : is_some(target_string(conditions, target.a[i]))}
         IN  IF hits = {} THEN None ELSE target_string(conditions, target.a[first_of(hits)])

\* s with its first '*' replaced by c
first_star_replaced(s, c) ==
    LET star == find(s, "*")
    IN  IF star < 0 THEN s ELSE slice(s, 0, star) \o c \o slice(s, star + 1, Len(s))

\* C15: when load_package_exports selects the pattern key pre + '*' + suf
\* for package_subpath = pre + c + suf and resolves a path, the path is the
\* manifest's directory joined with the target string in which the first
\* '*' only is replaced by c, also when the target string is reached
\* through condition objects or arrays; resolve returns that path cleaned.
C15_FirstStarReplacedByCapture ==
    (/\ Returned("load_package_exports") \/ Returned("resolve")
     /\ project = "patterns"
     /\ result.k \in {"Some", "Ok"}
     /\ exports_manifest(call).k = "Ok"
     /\ is_some(exports_manifest(call).v.exports)
     /\ in_pattern_loop(unwrap(exports_manifest(call).v.exports),
                        DOT \o parse_package_name(call.args[2]).v[2]))
        => LET parsed == parse_package_name(call.args[2]).v
               package_subpath == DOT \o parsed[2]
               map == unwrap(exports_manifest(call).v.exports).o
               matching == {map[i].key : i \in {i \in 1..Len(map) :
                               is_some(map[i].value) /\ key_matches(map[i].key, package_subpath)}}
               selected == CHOOSE key \in maximal_keys(matching) : TRUE
               string == target_string(call.self.options.conditions,
                                       unwrap(unwrap(map_get(map, selected))))
               path == join(join(call.args[1], parsed[1]),
                            first_star_replaced(unwrap(string),
                                                captured(selected, package_subpath)))
           IN  (matching # {} /\ is_pattern(selected)) =>
                   /\ is_some(string)
                   /\ result = IF call.op = "resolve" THEN Ok(clean(path)) ELSE SomeP(path)

\* 'k/star/index' in Browser: './star/*' comes through the condition
\* "import" and an array to './esm/*/*.mjs', of which the first '*' is
\* replaced by 'index'
C15_Witness ==
    /\ Returned("load_package_exports")
    /\ call.args[2] = <<"k", "/", "s", "t", "a", "r", "/", "i", "n", "d", "e", "x">>
    /\ call.self.env = "Browser"
    /\ exports_manifest(call).k = "Ok"
    /\ unwrap(exports_manifest(call).v.exports).o[1].value # Some(ExString(<<".", "/", "l", "i", "b", "/", "*", ".", "m", "j", "s">>))
    /\ result = SomeP(<<"/", "p", "/", "n", "o", "d", "e", "_", "m", "o", "d", "u", "l", "e", "s", "/", "k", "/", ".", "/", "e", "s", "m", "/", "i", "n", "d", "e", "x", "/", "*", ".", "m", "j", "s">>)


\* C16: load_as_file probes, for extension e, the base path with '.' + e
\* appended, also when the base path has a dot in it: for a base that is
\* no file (and has no extension of the rewrite table), a result is the
\* base path with one of options.extensions appended, never a path in
\* which an extension of the base is replaced, and there is a result when
\* such an appended path is a file.
C16_ExtensionAppended ==
    (/\ Returned("load_as_file")
     /\ ~is_file(call.args[1])
     /\ rewrites(call.args[1]) = {})
        => LET extensions == call.self.options.extensions
               candidates == {appended(call.args[1], extensions[i]) : i \in 1..Len(extensions)}
           IN  /\ result.k = "Some" => result.v \in candidates
               /\ (\E candidate \in candidates : is_file(candidate)) => result.k = "Some"


\* keys of both kinds: one starts with '.', one does not
is_mixed(map) ==
    /\ \E i \in 1..Len(map) : starts_with(map[i].key, DOT)
    /\ \E i \in 1..Len(map) : ~starts_with(map[i].key, DOT)

\* C17: the validation of an exports Object fails with InvalidExports
\* exactly when the object has a key that starts with '.' and a key that
\* does not; every other object, the empty one too, is accepted; and
\* load_package_exports applies it for every subpath, also one with a '*'
\* or a '/' at its end.
C17_MixedKeysOnlyAreInvalid ==
    /\ (Returned("is_conditional_exports_main_sugar") /\ call.args[1].t = "Object")
       => (result = Err("InvalidExports") <=> is_mixed(call.args[1].o))
    /\ (/\ Returned("load_package_exports")
        /\ parse_package_name(call.args[2]).k = "Ok"
        /\ exports_manifest(call).k = "Ok"
        /\ is_some(exports_manifest(call).v.exports)
        /\ unwrap(exports_manifest(call).v.exports).t = "Object"
        /\ is_mixed(unwrap(exports_manifest(call).v.exports).o))
       => result = Err("InvalidExports")


\* C18: in a condition object a matching key whose value is null, or whose
\* nested value gives no result, is passed over and the next matching key
\* in insertion order is tried; the outcome is InvalidExports only when
\* every matching key has been tried without a result.
C18_FailingConditionIsSkipped ==
    (/\ Returned("load_package_exports")
     /\ parse_package_name(call.args[2]).k = "Ok"
     /\ parse_package_name(call.args[2]).v[2] = <<>>
     /\ exports_manifest(call).k = "Ok"
     /\ is_some(exports_manifest(call).v.exports)
     /\ unwrap(exports_manifest(call).v.exports).t = "Object"
     /\ is_sugar(unwrap(exports_manifest(call).v.exports)))
        => LET package_json_path ==
                   join(join(call.args[1], parse_package_name(call.args[2]).v[1]),
                        PACKAGE_JSON)
               string == target_string(call.self.options.conditions,
                                       unwrap(exports_manifest(call).v.exports))
           IN  result = IF is_some(string)
                        THEN SomeP(with_file_name(package_json_path, unwrap(string)))
                        ELSE Err("InvalidExports")


\* what the node_modules walk comes to for a bare target: the outcome of
\* the nearest level that has one, NoneP when no level has
walk_outcome(self) ==
    LET levels == dirs_up(unwrap(parent(unwrap(canonicalize(self.from)))))
        at(i) == in_node_modules(self, join(levels[i], NODE_MODULES), self.target)
        stops == {i \in 1..Len(levels) : at(i).k # "None"}
    IN  IF stops = {} THEN NoneP ELSE at(first_of(stops))

\* a bare target that is no core module, resolved from a file that exists
is_bare(self) ==
    /\ ~is_relative(self.target)
    /\ ~is_some(core_module(self))
    /\ exists(self.from)

\* C12: for a bare specifier and a TSConfig that declares paths, resolve
\* returns the first candidate of match_tsconfig_paths, in list order, that
\* loads as a file or else as a directory, whatever node_modules holds;
\* when no candidate loads, the result is that of the node_modules walk: a
\* package found there is resolved, and the module is not found otherwise.
C12_TSConfigPathsThenNodeModules ==
    (Returned("resolve") /\ is_bare(call.self)) =>
        LET located == resolve_tsconfig(call.self, call.self.from)
            tsconfig == located.v
            candidates == match_tsconfig_paths(call.self,
                              IF is_some(tsconfig.base_url) THEN unwrap(tsconfig.base_url)
                              ELSE DOT,
                              unwrap(tsconfig.paths)).v
            as_file(i) == load_as_file(candidates[i], call.self.options.extensions)
            loaded(i) == IF as_file(i).k = "Some" THEN as_file(i)
                         ELSE load_as_directory(call.self, candidates[i])
            hits == {i \in 1..Len(candidates) : loaded(i).k = "Some"}
            outcome == walk_outcome(call.self)
        IN  (located.k = "Some" /\ is_some(tsconfig.paths)) =>
                IF hits # {} THEN result = Ok(clean(loaded(first_of(hits)).v))
                ELSE /\ outcome.k = "Some" => result = Ok(clean(outcome.v))
                     /\ outcome.k = "None" => result = Err("ModuleNotFound")

\* '@c/T' is mapped to c/T and d/T, neither of which exists: the file of
\* node_modules is the result
C12_Witness ==
    /\ Returned("resolve")
    /\ call.self.target = <<"@", "c", "/", "T">>
    /\ resolve_tsconfig(call.self, call.self.from).k = "Some"
    /\ resolve_tsconfig(call.self, call.self.from).v.paths =
           Some(<<Entry(<<"@", "c", "/", "*">>, <<<<"c", "/", "*">>, <<"d", "/", "*">>>>)>>)
    /\ ~exists(<<"/", "p", "/", "c">>) /\ ~exists(<<"/", "p", "/", "d">>)
    /\ result = Ok(<<"/", "p", "/", "n", "o", "d", "e", "_", "m", "o", "d", "u", "l", "e", "s", "/", "@", "c", "/", "T", ".", "j", "s">>)


\* the places where resolve_tsconfig looks, nearest first: every name in
\* `from` and in each directory above it
config_places(self) ==
    LET levels == dirs_up(self.from)
    IN  [n \in 1..(Len(levels) * Len(TSCONFIG_NAMES)) |->
            join(levels[((n - 1) \div Len(TSCONFIG_NAMES)) + 1],
                 TSCONFIG_NAMES[((n - 1) % Len(TSCONFIG_NAMES)) + 1])]

\* the places that hold a file
configs_found(self) == {n \in 1..Len(config_places(self)) : is_file(config_places(self)[n])}

\* the result is that of the node_modules walk
continues_with_node_modules(self, r) ==
    LET outcome == walk_outcome(self)
    IN  /\ outcome.k = "Some" => r = Ok(clean(outcome.v))
        /\ outcome.k = "None" => r = Err("ModuleNotFound")
        /\ aborts(outcome) => r = outcome

\* C13: for a bare specifier, an error raised while the TSConfig is
\* located or parsed (InvalidTSConfig for a config that is no JSON,
\* InvalidTSConfigExtend, an error of the resolution of `extends`) is the
\* result of resolve, whatever node_modules holds; with no TSConfig, or
\* with one that has no paths, resolve continues with the node_modules
\* walk.
C13_TSConfigErrorsAreReturned ==
    (Returned("resolve") /\ is_bare(call.self)) =>
        LET located == resolve_tsconfig(call.self, call.self.from)
            found == configs_found(call.self)
            nearest == read_to_string(config_places(call.self)[first_of(found)])
        IN  /\ found = {} => continues_with_node_modules(call.self, result)
            /\ (found # {} /\ ~unwrap(nearest).json) => result = Err("InvalidTSConfig")
            /\ (/\ found # {}
                /\ unwrap(nearest).json
                /\ ~is_some(unwrap(nearest).extends)
                /\ ~is_some(unwrap(nearest).paths))
               => continues_with_node_modules(call.self, result)
            /\ located.k = "Err" => result = located
            /\ (located.k = "Some" /\ ~is_some(located.v.paths))
               => continues_with_node_modules(call.self, result)

\* /p/tsconfig.json is no JSON and package k is in /p/node_modules
C13_Witness ==
    /\ Returned("resolve")
    /\ call.self.target = <<"k">>
    /\ is_file(<<"/", "p", "/", "t", "s", "c", "o", "n", "f", "i", "g", ".", "j", "s", "o", "n">>)
    /\ ~unwrap(read_to_string(<<"/", "p", "/", "t", "s", "c", "o", "n", "f", "i", "g", ".", "j", "s", "o", "n">>)).json
    /\ is_file(<<"/", "p", "/", "n", "o", "d", "e", "_", "m", "o", "d", "u", "l", "e", "s", "/", "k", "/", "i", "n", "d", "e", "x", ".", "j", "s">>)
    /\ result = Err("InvalidTSConfig")


\* the file that the `extends` of the config at path names
extends_target(path) ==
    clean(join(unwrap(parent(path)), unwrap(unwrap(read_to_string(path)).extends)))

RECURSIVE chain_ends(_, _)
\* the config at path and every config above it in the chain of `extends`
\* is a file that holds JSON, and the chain comes to a config without
\* `extends` before it comes to one of the files in seen again
chain_ends(path, seen) ==
    /\ is_file(path)
    /\ path \notin seen
    /\ unwrap(read_to_string(path)).json
    /\ is_some(unwrap(read_to_string(path)).extends)
       => chain_ends(extends_target(path), seen \cup {path})

\* a chain of finite length, every config of which loads
chain_loads(path) == chain_ends(path, {})

RECURSIVE nearest_declared(_, _)
\* the value of a field as the nearest config of the chain declares it,
\* the child first; base_url is taken from the directory of the file that
\* declares it
nearest_declared(path, field) ==
    LET doc == unwrap(read_to_string(path))
        own == IF field = "paths" THEN doc.paths
               ELSE IF is_some(doc.base_url)
               THEN Some(join(unwrap(parent(path)), unwrap(doc.base_url)))
               ELSE None
    IN  IF is_some(own) THEN own
        ELSE IF is_some(doc.extends) THEN nearest_declared(extends_target(path), field)
        ELSE None

\* C14: parse_tsconfig of a config whose chain of `extends` loads gives,
\* for base_url and for paths, the value that the nearest config of the
\* chain declares (the child first), and no value only when no config of
\* the chain declares one; base_url is the directory of the declaring file
\* joined with the declared value.
C14_NearestDeclarationWins ==
    (Returned("parse_tsconfig") /\ chain_loads(call.args[1])) =>
        /\ result.k = "Some"
        /\ result.v.base_url = nearest_declared(call.args[1], "base_url")
        /\ result.v.paths = nearest_declared(call.args[1], "paths")

\* a chain of three: /p/tsconfig.json declares nothing, /p/conf/b.json
\* declares baseUrl 'lib', /p/conf/c.json declares baseUrl '.' and paths
C14_Witness ==
    /\ Returned("parse_tsconfig")
    /\ chain_loads(call.args[1])
    /\ is_some(unwrap(read_to_string(call.args[1])).extends)
    /\ is_some(unwrap(read_to_string(extends_target(call.args[1]))).extends)
    /\ extends_target(extends_target(call.args[1])) = <<"/", "p", "/", "c", "o", "n", "f", "/", "c", ".", "j", "s", "o", "n">>
    /\ ~is_some(unwrap(read_to_string(call.args[1])).base_url)
    /\ result.v.base_url = Some(<<"/", "p", "/", "c", "o", "n", "f", "/", "l", "i", "b">>)
    /\ result.v.paths = Some(<<Entry(<<"@", "c", "/", "*">>, <<<<"c", "/", "*">>>>)>>)


\* the config at path holds JSON and its `extends` is a relative specifier
\* that names no file and no directory as it is written
extends_needs_extension(path) ==
    /\ is_file(path)
    /\ unwrap(read_to_string(path)).json
    /\ is_some(unwrap(read_to_string(path)).extends)
    /\ is_relative(unwrap(unwrap(read_to_string(path)).extends))
    /\ ~exists(extends_target(path))

\* the value of a field of the config at path when its parent is the file
\* parent_path
merged_with(path, parent_path, field) ==
    LET doc == unwrap(read_to_string(path))
        own == IF field = "paths" THEN doc.paths
               ELSE IF is_some(doc.base_url)
               THEN Some(join(unwrap(parent(path)), unwrap(doc.base_url)))
               ELSE None
    IN  IF is_some(own) THEN own ELSE nearest_declared(parent_path, field)

\* C21: the parent of a TSConfig is looked for with the extension json
\* only.  For `extends` E that names no file as written: when E.json is a
\* config that loads, parse_tsconfig merges with E.json, whatever E.ts or
\* E.tsx exist next to it; when E.json does not exist, no other file E.<e>
\* is taken for the parent, so the call fails for a parent that is not
\* found and never with the parse error of another file.
C21_ExtendsLooksForJsonOnly ==
    (Returned("parse_tsconfig") /\ extends_needs_extension(call.args[1])) =>
        LET json_parent == appended(extends_target(call.args[1]), "Json")
        IN  /\ chain_loads(json_parent) =>
                /\ result.k = "Some"
                /\ result.v.base_url = merged_with(call.args[1], json_parent, "base_url")
                /\ result.v.paths = merged_with(call.args[1], json_parent, "paths")
            /\ ~exists(json_parent) =>
                /\ result.k = "Err"
                /\ result.e \in {"ModuleNotFound", "InvalidTSConfigExtend"}

\* the config at path holds JSON and nothing is there for its `extends`:
\* for a relative specifier no file or directory of that name and no file
\* of that name with an extension (a directory of such a name is a path
\* that cannot be read), for a bare one no node_modules directory above
\* the config
parent_not_found(path) ==
    /\ is_file(path)
    /\ unwrap(read_to_string(path)).json
    /\ is_some(unwrap(read_to_string(path)).extends)
    /\ IF is_relative(unwrap(unwrap(read_to_string(path)).extends))
       THEN /\ ~exists(extends_target(path))
            /\ \A i \in 1..Len(DEFAULT_EXTENSIONS) :
                   ~is_file(appended(extends_target(path), DEFAULT_EXTENSIONS[i]))
       ELSE \A i \in 1..Len(dirs_up(unwrap(parent(path)))) :
                ~exists(join(dirs_up(unwrap(parent(path)))[i], NODE_MODULES))

\* C22: when the parent that `extends` names cannot be located (no file
\* for the specifier, or a path that cannot be read), parse_tsconfig fails
\* with InvalidTSConfigExtend, and so does resolve of a bare specifier
\* whose nearest TSConfig is that config.
C22_MissingParentIsInvalidTSConfigExtend ==
    /\ (Returned("parse_tsconfig") /\ parent_not_found(call.args[1]))
       => result = Err("InvalidTSConfigExtend")
    /\ (/\ Returned("resolve")
        /\ is_bare(call.self)
        /\ configs_found(call.self) # {}
        /\ parent_not_found(config_places(call.self)[first_of(configs_found(call.self))]))
       => result = Err("InvalidTSConfigExtend")

RECURSIVE chain_revisits(_, _)
\* the chain of `extends` that starts at path goes through configs that
\* load and comes to one of the files in seen, or to one of its own, again
chain_revisits(path, seen) ==
    /\ is_file(path)
    /\ unwrap(read_to_string(path)).json
    /\ \/ path \in seen
       \/ /\ is_some(unwrap(read_to_string(path)).extends)
          /\ chain_revisits(extends_target(path), seen \cup {path})

\* C23: every call of resolve, and of parse_tsconfig, comes to an end with
\* a value or an error: neither the walk to the root, nor the resolution
\* of an `extends` target, nor a ring of `extends` keeps it going; a
\* config that its own chain of `extends` comes back to is reported as
\* InvalidTSConfigExtend.
C23_ResolveTerminates ==
    /\ (Returned("resolve") \/ Returned("parse_tsconfig")) => result.k \in {"Ok", "Some", "None", "Err"}
    /\ (Returned("parse_tsconfig") /\ chain_revisits(call.args[1], {}))
       => result = Err("InvalidTSConfigExtend")
    /\ (/\ Returned("resolve")
        /\ is_bare(call.self)
        /\ configs_found(call.self) # {}
        /\ chain_revisits(config_places(call.self)[first_of(configs_found(call.self))], {}))
       => result = Err("InvalidTSConfigExtend")

\* the subpath has a key of its own in the exports and its value is null
is_blocked(exports, package_subpath) ==
    /\ exports.t = "Object"
    /\ map_get(exports.o, package_subpath) = Some(None)

\* the manifest of the package of name in node_modules_dir loads and its
\* exports block the subpath of name
blocked_in(node_modules_dir, name) ==
    LET parsed == parse_package_name(name)
        manifest == load_package_json(join(join(node_modules_dir, parsed.v[1]), PACKAGE_JSON))
    IN  /\ parsed.k = "Ok"
        /\ manifest.k = "Ok"
        /\ is_some(manifest.v.exports)
        /\ is_blocked(unwrap(manifest.v.exports), DOT \o parsed.v[2])

\* C24: a subpath key whose value is null blocks the subpath:
\* load_package_exports gives no path for it (no pattern key that matches
\* it is used, and no other success value comes back), and resolve of a
\* bare specifier whose package blocks the subpath in the nearest
\* node_modules, the only one, gives a path only if the name loads there
\* as a file or as a directory.
C24_NullTargetBlocks ==
    /\ (Returned("load_package_exports") /\ blocked_in(call.args[1], call.args[2]))
       => result.k # "Some"
    /\ (/\ Returned("resolve")
        /\ is_bare(call.self)
        /\ configs_found(call.self) = {}
        /\ blocked_in(join(unwrap(parent(call.self.from)), NODE_MODULES), call.self.target)
        /\ \A i \in 2..Len(dirs_up(unwrap(parent(call.self.from)))) :
               ~exists(join(dirs_up(unwrap(parent(call.self.from)))[i], NODE_MODULES)))
       => LET module_base == join(join(unwrap(parent(call.self.from)), NODE_MODULES),
                                  call.self.target)
              as_file == load_as_file(module_base, call.self.options.extensions)
              as_directory == load_as_directory(call.self, module_base)
          IN  IF as_file.k = "Some" THEN result = ok_with(as_file.v)
              ELSE IF as_directory.k = "Some" THEN result = ok_with(as_directory.v)
              ELSE result.k = "Err"

\* C25: a successful result of resolve that is no 'node:' identifier names
\* a regular file of the filesystem the call ran on, whether it was found
\* as a file, by an extension, through a directory, through TSConfig paths
\* or through the exports of a package.
C25_OkNamesARegularFile ==
    (/\ Returned("resolve")
     /\ result.k = "Ok"
     /\ ~starts_with(result.v, <<"n", "o", "d", "e", ":">>))
    => is_file(result.v)

\* C26: resolve is total: from a file that exists, every target, the
\* empty string, '@' and a scope without a slash among them, gives Ok or
\* an EsResolverError, and parse_package_name gives a pair or an error for
\* every name; no call stops without a value.
C26_ResolveIsTotal ==
    /\ (Returned("resolve") /\ exists(call.self.from)) => result.k \in {"Ok", "Err"}
    /\ Returned("parse_package_name") => result.k \in {"Ok", "Err"}

\* the part of a key before its '*' and the part after it
prefix_of(pattern) == slice(pattern, 0, find(pattern, "*"))
suffix_of(pattern) == slice(pattern, find(pattern, "*") + 1, Len(pattern))

\* C27: for a key with one '*', prefix P and suffix S, and a target t
\* that match_exports_pattern reports as a match: t is at least as long
\* as P and S together, and extract_exports_pattern gives the substring c
\* with P + c + S = t; a target too short to hold P and S side by side is
\* no match.
C27_MatchHasACapture ==
    /\ (Returned("match_exports_pattern") /\ result.v = TRUE)
       => Len(call.args[2]) >= Len(prefix_of(call.args[1])) + Len(suffix_of(call.args[1]))
    /\ (/\ Returned("extract_exports_pattern")
        /\ match_exports_pattern(call.args[1], call.args[2]))
       => /\ result.k = "Ok"
          /\ prefix_of(call.args[1]) \o result.v \o suffix_of(call.args[1]) = call.args[2]
====
